---- MODULE Spec2Model ----
(***************************************************************************)
(* Match session engine of the curling REST server: the shot pipeline      *)
(* (routers/match.py receive_shot_info), end transition                    *)
(* (state_end_number_update), scoring (score_utils.py) and the rule        *)
(* parameters (domain/match_rules.py).                                     *)
(*                                                                         *)
(* Time: datetime.now() is modelled by the pair <<now, clk>>: now is the   *)
(* wall clock in coarse units (it advances by Tick), clk orders the        *)
(* created_at stamps taken within one unit.  Durations are differences of  *)
(* the coarse component.                                                   *)
(*                                                                         *)
(* Each handler is cut at its awaits on the database and on redis; reads   *)
(* of rows that never change after match creation are folded into the     *)
(* neighbouring step.                                                      *)
(***************************************************************************)
EXTENDS Integers, Sequences, FiniteSets, TLC

\* ------------------------------------------------------------------ bounds
MaxNow == 1
MaxEnd == 0
MaxStones == 1
MaxRequests == 2
ScoreStones == 2
MaxCalls == 2
MaxConnects == 3
MaxSetupEnd == 1

\* ------------------------------------------------------- program constants
STANDARD_TOTAL_SHOTS_PER_END == 16
MIX_DOUBLES_TOTAL_SHOTS_PER_END == 10
\* Lengths are kept on an integer grid: the tee is at (0, TEE_LINE) and the
\* scoring radius HOUSE_RADIUS + STONE_RADIUS is SCORE_DISTANCE grid units.
TEE_LINE == 38
SCORE_DISTANCE == 2

None == "None"
NULL == 0 - 1
first_team_id == "5050f20f"
second_team_id == "60e1e056"
Teams == {"team0", "team1"}
Reqs == {1, 2}

Users == {"u1", "u2"}
Conns == {"team0", "team1", "viewer", "team0_again"}

\* Match configurations a client may ask start_match for.
EndCounts == {1, 2}
TimeLimits == {0, 1}
GameModes == {"standard"}

\* Where the simulator may leave a stone that is in play: on the tee, inside
\* the scoring radius, exactly on it, and outside it.
Origin == <<0, 0>>
InPlay == {<<0, TEE_LINE>>, <<0, TEE_LINE - 1>>, <<0, TEE_LINE - SCORE_DISTANCE>>,
           <<0, TEE_LINE - SCORE_DISTANCE - 1>>}

VARIABLES now, clk, match, bound, state, shot_info, score, published, req,
          served, start_lock, stream, scoring,
          auth, call, called, redis, sub, pubsub, emitted, connected, met, signals

\* The match session engine, and what team configuration and the event streams
\* add to it; the streams' message queues apart.
engine_vars == <<now, clk, match, bound, state, shot_info, score, published, req,
                 served, start_lock, stream, scoring>>

session_vars == <<auth, call, called, redis, sub, emitted, connected, met, signals>>

vars == <<engine_vars, session_vars, pubsub>>

\* ------------------------------------------------------------ rule provider
stone_count_per_team(game_mode) == IF game_mode = "mix_doubles" THEN 6 ELSE 8

total_shots_per_end(game_mode) ==
    IF game_mode = "mix_doubles" THEN MIX_DOUBLES_TOTAL_SHOTS_PER_END
    ELSE STANDARD_TOTAL_SHOTS_PER_END

\* The stored layout of a state: "reset" is the layout with every stone at the
\* origin; the coordinates a shot leaves are produced by the external simulator
\* and are kept only as "simulated" with the number of entries per team.
generate_reset_stone_coordinate_data(game_mode) ==
    [kind |-> "reset", count |-> stone_count_per_team(game_mode)]

\* ----------------------------------------------------------------- scoring
\* The distance is kept squared (the square root is monotone, so the order
\* of two distances and their comparison with the radius are unchanged).
get_distance(team_number, x, y) ==
    <<team_number, x * x + (y - TEE_LINE) * (y - TEE_LINE)>>

\* The comparison with a stone exactly at the radius taken as outside.
FartherOrAt(distance, radius) == distance >= radius * radius

Farther(distance, radius) == distance > radius * radius

\* sorted(distance_list, key=lambda x: x[1]) is stable: an element is put behind
\* every element whose distance is not larger.
InsertByDistance(srt, x) ==
    LET k == Cardinality({i \in 1..Len(srt) : srt[i][2] <= x[2]})
    IN  SubSeq(srt, 1, k) \o <<x>> \o SubSeq(srt, k + 1, Len(srt))

RECURSIVE sorted(_)
sorted(distance_list) ==
    IF distance_list = <<>> THEN <<>>
    ELSE InsertByDistance(sorted(SubSeq(distance_list, 1, Len(distance_list) - 1)),
                          distance_list[Len(distance_list)])

\* Number of leading elements of rest that belong to team and are not farther
\* than the scoring radius (the for loop that breaks at the first other one).
RECURSIVE CountRun(_, _)
CountRun(rest, team) ==
    IF rest = <<>> THEN 0
    ELSE IF rest[1][1] = team /\ ~Farther(rest[1][2], SCORE_DISTANCE)
         THEN 1 + CountRun(Tail(rest), team)
         ELSE 0

get_score(distance_list) ==
    LET sort_distance_list == sorted(distance_list)
    IN  IF Farther(sort_distance_list[1][2], SCORE_DISTANCE)
        THEN <<NULL, 0>>
        ELSE <<sort_distance_list[1][1],
               1 + CountRun(Tail(sort_distance_list), sort_distance_list[1][1])>>

RECURSIVE calculate_score(_)
calculate_score(score_list) ==
    IF score_list = <<>> THEN 0
    ELSE score_list[1] + calculate_score(Tail(score_list))

\* ------------------------------------------------------------------ tables
TeamId(match_team_name) ==
    IF match_team_name = "team0" THEN first_team_id ELSE second_team_id

OtherTeamId(team_id) ==
    IF team_id = first_team_id THEN second_team_id ELSE first_team_id

\* read_latest_state_data: order_by(desc(State.created_at)).limit(1).
RECURSIVE LatestUpTo(_, _)
LatestUpTo(rows, n) ==
    IF n = 1 THEN 1
    ELSE LET k == LatestUpTo(rows, n - 1)
         IN  IF rows[n].created_at[2] > rows[k].created_at[2] THEN n ELSE k

LatestId(rows) == LatestUpTo(rows, Len(rows))

read_latest_state_data == state[LatestId(state)]

NoState ==
    [winner_team_id |-> None, end_number |-> 0, shot_number |-> NULL,
     total_shot_number |-> NULL,
     first_team_remaining_time |-> 0, second_team_remaining_time |-> 0,
     first_team_extra_end_remaining_time |-> 0,
     second_team_extra_end_remaining_time |-> 0,
     stone_coordinate |-> [kind |-> "reset", count |-> 0],
     shot_id |-> NULL, next_shot_team_id |-> None, created_at |-> <<0, 0>>]

\* match_data.mix_doubles_settings of a match that has none (None).
NoSettings ==
    [positioned_stones_pattern |-> NULL, team0_power_play_end |-> NULL,
     team1_power_play_end |-> NULL, end_setup_team_ids |-> <<>>]

NoScore == [team0 |-> <<>>, team1 |-> <<>>]

NoScoring == [distance_list |-> <<>>, result |-> <<>>]

Idle ==
    [pc |-> "idle", status |-> None, team |-> None, end_time |-> 0,
     pre_state_id |-> 0, post_state_id |-> 0,
     pre_state_data |-> NoState, pre_score_data |-> NoScore,
     state_data |-> NoState, score_data |-> NoScore,
     next_end_first_shot_team_id |-> None, next_end_selector_team_id |-> None,
     request |-> None]

\* A configuration request that is not being served, a stream that is not
\* connected, and redis with none of the match's keys.
NoCall == [pc |-> "idle", expected_match_team_name |-> None,
           match_team_name |-> None, status |-> None, prior |-> {}]

Off == [pc |-> "off", waiting_for_initial_sync_signal |-> TRUE, replays |-> 0,
        state_id |-> 0, end_number |-> 0, states_at_sync |-> 0]

\* The presence keys (ex=90 s, renewed by the stream's loop) and the team_config
\* keys (ex=24 h) outlast the session: of the keys only the signal lock lapses.
NoKeys == [presence |-> {}, team_config |-> {}, signal_lock |-> FALSE]

\* The messages of the match's channel: state_update carries the id of the
\* state, the coordination messages carry none.
state_update(state_id) == [type |-> "state_update", state_id |-> state_id]

Notice(type) == [type |-> type, state_id |-> 0]

\* A channel that drops a message when the receiver has one waiting.
PublishLossy(queues, subscribers, message) ==
    [c \in Conns |-> IF subscribers[c].pc # "off" /\ queues[c] = <<>>
                     THEN Append(queues[c], message)
                     ELSE queues[c]]

\* redis.publish: the message reaches the queue of every subscribed connection.
Publish(queues, subscribers, message) ==
    [c \in Conns |-> IF subscribers[c].pc # "off"
                     THEN Append(queues[c], message)
                     ELSE queues[c]]

\* No configuration request, no stream and no key yet.
NoSession ==
    /\ auth = {}
    /\ call = [u \in Users |-> NoCall]
    /\ called = 0
    /\ redis = NoKeys
    /\ sub = [c \in Conns |-> Off]
    /\ pubsub = [c \in Conns |-> <<>>]
    /\ emitted = [c \in Conns |-> <<>>]
    /\ connected = 0
    /\ met = FALSE
    /\ signals = 0

\* ------------------------------------------------------------- start_match
\* Lines 264-271: the settings row of a mixed doubles match; team1 selects the
\* positioned stones of end 0.  The list end_setup_team_ids is indexed by
\* end_number + 1.
MatchMixDoublesSettings(positioned_stones_pattern) ==
    [positioned_stones_pattern |-> positioned_stones_pattern,
     team0_power_play_end |-> NULL,
     team1_power_play_end |-> NULL,
     end_setup_team_ids |-> <<second_team_id>>]

\* The state after POST /matches: the match row, its score row (one slot per
\* standard end and one for the extra ends) and the first state.
start_match(game_mode, standard_end_count, time_limit, extra_end_time_limit) ==
    /\ match = [game_mode |-> game_mode,
                standard_end_count |-> standard_end_count,
                time_limit |-> time_limit,
                extra_end_time_limit |-> extra_end_time_limit,
                first_team_name |-> None, second_team_name |-> None,
                mix_doubles_settings |->
                    IF game_mode = "mix_doubles"
                    THEN MatchMixDoublesSettings(0) ELSE NoSettings]
    /\ score = [team0 |-> [i \in 1..(standard_end_count + 1) |-> 0],
                team1 |-> [i \in 1..(standard_end_count + 1) |-> 0]]
    /\ state = << [NoState EXCEPT
                     !.shot_number = IF game_mode = "mix_doubles" THEN NULL ELSE 0,
                     !.total_shot_number = IF game_mode = "mix_doubles" THEN NULL ELSE 0,
                     !.first_team_remaining_time = time_limit,
                     !.second_team_remaining_time = time_limit,
                     !.first_team_extra_end_remaining_time = extra_end_time_limit,
                     !.second_team_extra_end_remaining_time = extra_end_time_limit,
                     !.stone_coordinate = generate_reset_stone_coordinate_data(game_mode),
                     !.next_shot_team_id =
                         IF game_mode = "mix_doubles" THEN None ELSE first_team_id,
                     !.created_at = <<0, 1>>] >>

Init ==
    /\ now = 0
    /\ clk = 1
    /\ \E game_mode \in GameModes, standard_end_count \in EndCounts,
          time_limit \in TimeLimits, extra_end_time_limit \in TimeLimits :
           start_match(game_mode, standard_end_count, time_limit, extra_end_time_limit)
    /\ bound = {}
    /\ shot_info = <<>>
    /\ published = <<>>
    /\ req = [r \in Reqs |-> Idle]
    /\ served = 0
    /\ start_lock = FALSE
    /\ stream = [pc |-> "idle", state_id |-> 0]
    /\ scoring = NoScoring
    /\ NoSession

\* datetime.now() advances.
Tick ==
    /\ now < MaxNow
    /\ now' = now + 1
    /\ UNCHANGED <<session_vars, pubsub, clk, match, bound, state, shot_info, score, published, req, served, start_lock, stream, scoring>>

\* ------------------------------------------------------- store_team_config
\* The claim made without looking at the slots already taken.
update_match_data_unguarded(m, match_team_name) == match_team_name

\* UpdateData.update_match_data_with_team_name: the slot the caller gets, or
\* None when both slots are taken.
update_match_data_with_team_name(m, match_team_name) ==
    IF m.first_team_name = None /\ m.second_team_name = None THEN match_team_name
    ELSE IF m.first_team_name = None /\ m.second_team_name # None THEN "team0"
    ELSE IF m.first_team_name # None /\ m.second_team_name = None THEN "team1"
    ELSE None

\* A first claim with the default roster, from request to response: the slot
\* is taken, the caller is bound to it (basic_auth.create_match_data), the
\* slot's team_config key is set and team_config_updated is published.
store_team_config(expected_match_team_name) ==
    LET your_match_team_name ==
            update_match_data_with_team_name(match, expected_match_team_name)
    IN  /\ your_match_team_name # None
        /\ match' = IF your_match_team_name = "team0"
                    THEN [match EXCEPT !.first_team_name = "name"]
                    ELSE [match EXCEPT !.second_team_name = "name"]
        /\ bound' = bound \cup {your_match_team_name}
        /\ redis' = [redis EXCEPT !.team_config = @ \cup {your_match_team_name}]
        /\ pubsub' = Publish(pubsub, sub, Notice("team_config_updated"))
        /\ UNCHANGED <<now, clk, state, shot_info, score, published, req, served,
                       start_lock, stream, scoring>>
        /\ UNCHANGED <<auth, call, called, sub, emitted, connected, met, signals>>

\* ------------------------------------------------------- receive_shot_info
\* What the external simulator may return: per team, the first MaxStones
\* stones anywhere in play or still at the origin, the others at the origin.
SimulatedStones(game_mode) ==
    [Teams -> {[i \in 1..stone_count_per_team(game_mode) |->
                   IF i <= MaxStones THEN first_stones[i] ELSE Origin] :
               first_stones \in [1..MaxStones -> InPlay \cup {Origin}]}]

\* The layouts that can tell one outcome of a shot from another: the handler
\* looks at the stones' positions on the last shot of an end only (line 694),
\* so one layout stands for all on any other shot.
Outcomes(game_mode, pre_state_data) ==
    IF pre_state_data.total_shot_number + 1 = total_shots_per_end(game_mode)
    THEN SimulatedStones(game_mode)
    ELSE {[t \in Teams |-> [i \in 1..stone_count_per_team(game_mode) |-> Origin]]}

\* Lines 706-717: the stones' distances, team0's and team1's in turn.
distance_list(simulated_stones_coordinate, stone_count) ==
    [k \in 1..(2 * stone_count) |->
        IF k % 2 = 1
        THEN get_distance(0, simulated_stones_coordinate["team0"][(k + 1) \div 2][1],
                             simulated_stones_coordinate["team0"][(k + 1) \div 2][2])
        ELSE get_distance(1, simulated_stones_coordinate["team1"][k \div 2][1],
                             simulated_stones_coordinate["team1"][k \div 2][2])]

\* Clocks on which the time of a shot is taken from both teams.
RemainingTimeOfBoth(m, pre_state_data, match_team_name, end_time, team, extra) ==
    LET time_diff_seconds == end_time - pre_state_data.created_at[1]
        before == IF team = "team0"
                  THEN IF extra THEN pre_state_data.first_team_extra_end_remaining_time
                       ELSE pre_state_data.first_team_remaining_time
                  ELSE IF extra THEN pre_state_data.second_team_extra_end_remaining_time
                       ELSE pre_state_data.second_team_remaining_time
        applies == extra = ~(pre_state_data.end_number < m.standard_end_count)
    IN  IF applies THEN before - time_diff_seconds ELSE before

\* Lines 593-629: the acting team's budget (regulation before the extra ends,
\* extra-end time in them) loses the time since the previous state was created.
RemainingTime(m, pre_state_data, match_team_name, end_time, team, extra) ==
    LET time_diff_seconds == end_time - pre_state_data.created_at[1]
        before == IF team = "team0"
                  THEN IF extra THEN pre_state_data.first_team_extra_end_remaining_time
                       ELSE pre_state_data.first_team_remaining_time
                  ELSE IF extra THEN pre_state_data.second_team_extra_end_remaining_time
                       ELSE pre_state_data.second_team_remaining_time
        applies == /\ team = match_team_name
                   /\ extra = ~(pre_state_data.end_number < m.standard_end_count)
    IN  IF applies THEN before - time_diff_seconds ELSE before

TimeWinner(m, pre_state_data, match_team_name, end_time) ==
    LET extra == ~(pre_state_data.end_number < m.standard_end_count)
    IN  IF RemainingTime(m, pre_state_data, match_team_name, end_time,
                         match_team_name, extra) < 0
        THEN OtherTeamId(TeamId(match_team_name))
        ELSE None

Clamp(t) == IF t < 0 THEN 0 ELSE t

\* The selector of the next end when the team that scored selects, and a blank
\* end toggles the selector.
scoring_team_selects(m, end_number, scored_team) ==
    LET ids == m.mix_doubles_settings.end_setup_team_ids
        current_selector == IF end_number < Len(ids) THEN ids[end_number + 1]
                            ELSE second_team_id
    IN  IF scored_team = 0 THEN first_team_id
        ELSE IF scored_team = 1 THEN second_team_id
        ELSE IF current_selector = first_team_id THEN second_team_id
        ELSE first_team_id

\* Lines 726-751: the selector of the next end's positioned stones.  The
\* current selector is the one recorded for the end, the second team when none
\* is recorded.
next_end_selector(m, end_number, scored_team) ==
    LET ids == m.mix_doubles_settings.end_setup_team_ids
        current_selector == IF end_number < Len(ids) THEN ids[end_number + 1]
                            ELSE second_team_id
    IN  IF scored_team = 0 THEN second_team_id
        ELSE IF scored_team = 1 THEN first_team_id
        ELSE IF current_selector = first_team_id THEN second_team_id
        ELSE first_team_id

\* Lines 694-791: the last shot of an end is scored, the score row is rewritten
\* and, from the last standard end on, the totals decide the winner.
EndResult(m, pre_state_data, pre_score_data, match_team_name, scored, time_winner) ==
    LET end_number == pre_state_data.end_number
        count == m.standard_end_count
        scored_team == scored[1]
        slot == IF end_number < count THEN end_number + 1 ELSE count + 1
        team0_score == IF scored_team = 0 THEN [pre_score_data.team0 EXCEPT ![slot] = scored[2]]
                       ELSE IF scored_team = 1 THEN [pre_score_data.team0 EXCEPT ![slot] = 0]
                       ELSE pre_score_data.team0
        team1_score == IF scored_team = 0 THEN [pre_score_data.team1 EXCEPT ![slot] = 0]
                       ELSE IF scored_team = 1 THEN [pre_score_data.team1 EXCEPT ![slot] = scored[2]]
                       ELSE pre_score_data.team1
        blank_first == IF scored_team = NULL
                       THEN IF match_team_name = "team1" THEN first_team_id
                            ELSE second_team_id
                       ELSE None
        first_shot == IF scored_team = NULL THEN blank_first
                      ELSE IF end_number < count
                           THEN IF scored_team = 0 THEN second_team_id ELSE first_team_id
                           ELSE None
        winner == IF scored_team # NULL /\ end_number >= count
                  THEN IF scored_team = 0 THEN first_team_id ELSE second_team_id
                  ELSE time_winner
        team0_total_score == calculate_score(team0_score)
        team1_total_score == calculate_score(team1_score)
        decided == end_number >= count - 1
    IN  [score_data |-> [team0 |-> team0_score, team1 |-> team1_score],
         next_end_selector_team_id |->
             IF m.game_mode # "mix_doubles" THEN None
             ELSE next_end_selector(m, end_number, scored_team),
         next_end_first_shot_team_id |->
             IF decided /\ team0_total_score # team1_total_score THEN None ELSE first_shot,
         winner_team_id |->
             IF ~decided THEN winner
             ELSE IF team0_total_score > team1_total_score THEN first_team_id
             ELSE IF team0_total_score < team1_total_score THEN second_team_id
             ELSE None]

\* Lines 546-808 for one accepted shot: the post-shot state (its created_at is
\* stamped by the caller) and, on the last shot of an end, the end's result.
ShotResult(m, pre_state_data, pre_score_data, match_team_name, end_time, simulated) ==
    LET shot_team_id == pre_state_data.next_shot_team_id
        total_shot_number == pre_state_data.total_shot_number + 1
        last == total_shot_number = total_shots_per_end(m.game_mode)
        time_winner == TimeWinner(m, pre_state_data, match_team_name, end_time)
        scored == IF last
                  THEN get_score(distance_list(simulated, stone_count_per_team(m.game_mode)))
                  ELSE <<NULL, 0>>
        result == EndResult(m, pre_state_data, pre_score_data, match_team_name,
                            scored, time_winner)
    IN  [state_data |->
            [winner_team_id |-> IF last THEN result.winner_team_id ELSE time_winner,
             end_number |-> pre_state_data.end_number,
             shot_number |-> total_shot_number \div 2,
             total_shot_number |-> total_shot_number,
             first_team_remaining_time |->
                 Clamp(RemainingTime(m, pre_state_data, match_team_name, end_time, "team0", FALSE)),
             second_team_remaining_time |->
                 Clamp(RemainingTime(m, pre_state_data, match_team_name, end_time, "team1", FALSE)),
             first_team_extra_end_remaining_time |->
                 Clamp(RemainingTime(m, pre_state_data, match_team_name, end_time, "team0", TRUE)),
             second_team_extra_end_remaining_time |->
                 Clamp(RemainingTime(m, pre_state_data, match_team_name, end_time, "team1", TRUE)),
             stone_coordinate |->
                 [kind |-> "simulated", count |-> stone_count_per_team(m.game_mode)],
             shot_id |-> NULL,
             next_shot_team_id |->
                 IF last THEN None
                 ELSE IF shot_team_id = second_team_id THEN first_team_id
                      ELSE second_team_id,
             created_at |-> <<0, 0>>],
         last |-> last,
         score_data |-> IF last THEN result.score_data ELSE pre_score_data,
         next_end_first_shot_team_id |->
             IF last THEN result.next_end_first_shot_team_id ELSE None,
         next_end_selector_team_id |->
             IF last THEN result.next_end_selector_team_id ELSE None]

\* The handler returns or raises: the response stays in the slot until the slot
\* serves the next request.
Respond(r, status) ==
    req' = [req EXCEPT ![r] = [Idle EXCEPT !.pc = "done", !.status = status,
                                           !.team = req[r].team]]

Free(r) == req[r].pc \in {"idle", "done"}

\* The last end whose shots are followed: ends after it are set up (mixed
\* doubles) but not played.
LastEndPlayed(game_mode) == IF game_mode = "mix_doubles" THEN MaxSetupEnd ELSE MaxEnd

\* Line 510: end_time = datetime.now().  The request carries the credentials of
\* user: the account that claimed team0's or team1's slot, or a stranger (None).
\* A new request takes the lowest free slot; at most MaxRequests requests are
\* followed step by step, and ends after the last end played take no request.
ShotBegin(r, user) ==
    /\ Free(r)
    /\ \A q \in Reqs : q < r => ~Free(q)
    /\ served < MaxRequests
    /\ read_latest_state_data.end_number <= LastEndPlayed(match.game_mode)
    /\ req' = [req EXCEPT ![r] = [Idle EXCEPT !.pc = "read", !.team = user,
                                              !.end_time = now]]
    /\ served' = served + 1
    /\ UNCHANGED <<session_vars, pubsub, now, clk, match, bound, state, shot_info, score, published,
                   start_lock, stream, scoring>>

\* The comparison made against the wrong team id.
shot_team_name_swapped(pre_state_data) ==
    IF pre_state_data.next_shot_team_id = second_team_id THEN "team0" ELSE "team1"

\* Lines 537-541: the team whose turn the state says it is.
shot_team_name(pre_state_data) ==
    IF pre_state_data.next_shot_team_id = first_team_id THEN "team0" ELSE "team1"

\* record_shot_result that returns without having stored anything.
record_shot_result_lost(shot_info_data, post_state, pre_state_id) ==
    /\ shot_info' = shot_info
    /\ state' = state

\* record_shot_result without the link from the previous state.
record_shot_result_unlinked(shot_info_data, post_state, pre_state_id) ==
    /\ shot_info' = Append(shot_info, shot_info_data)
    /\ state' = Append(state, post_state)

\* A handler that takes a shot whether or not the end is set up.
end_setup_never_required(pre_state_data) == FALSE

\* Lines 527-532: a state without a next thrower or without a shot count waits
\* for the end's setup.
end_setup_required(pre_state_data) ==
    \/ pre_state_data.next_shot_team_id = None
    \/ pre_state_data.total_shot_number = NULL

\* Lines 516-544: the match and the latest state are read, the request is turned
\* away when the match is over, the end is not set up, the caller has no team
\* binding for the match (check_match_data) or it is not the caller's turn.
ShotRead(r) ==
    LET pre_state_data == read_latest_state_data
    IN  /\ req[r].pc = "read"
        /\ IF pre_state_data.winner_team_id # None
           THEN Respond(r, "Conflict: Match already finished.")
           ELSE IF end_setup_required(pre_state_data)
           THEN Respond(r, "Conflict: End setup required.")
           ELSE IF req[r].team \notin bound
           THEN Respond(r, "Unauthorized: Invalid match data")
           ELSE IF shot_team_name(pre_state_data) # req[r].team
           THEN Respond(r, "Conflict: Not your turn.")
           ELSE req' = [req EXCEPT ![r] =
                           [@ EXCEPT !.pc = "simulate",
                                     !.pre_state_id = LatestId(state),
                                     !.pre_state_data = pre_state_data,
                                     !.pre_score_data = score]]
        /\ UNCHANGED <<session_vars, pubsub, now, clk, match, bound, state, shot_info, score, published,
                       served, start_lock, stream, scoring>>

\* Lines 578-808 up to the next await: the simulator runs and the shot is
\* resolved.  On the last shot of an end the handler next awaits update_score;
\* otherwise the post-shot state is stamped (line 808) and awaits its commit.
ShotSimulate(r) ==
    /\ req[r].pc = "simulate"
    /\ \E simulated \in Outcomes(match.game_mode, req[r].pre_state_data) :
          LET res == ShotResult(match, req[r].pre_state_data, req[r].pre_score_data,
                                req[r].team, req[r].end_time, simulated)
          IN  IF res.last
              THEN /\ req' = [req EXCEPT ![r] =
                                 [@ EXCEPT !.pc = "update_score",
                                           !.state_data = res.state_data,
                                           !.score_data = res.score_data,
                                           !.next_end_first_shot_team_id =
                                               res.next_end_first_shot_team_id,
                                           !.next_end_selector_team_id =
                                               res.next_end_selector_team_id]]
                   /\ UNCHANGED clk
              ELSE /\ req' = [req EXCEPT ![r] =
                                 [@ EXCEPT !.pc = "record",
                                           !.state_data =
                                               [res.state_data EXCEPT
                                                   !.created_at = <<now, clk + 1>>]]]
                   /\ clk' = clk + 1
    /\ UNCHANGED <<session_vars, pubsub, now, match, bound, state, shot_info, score, published, served, start_lock, stream, scoring>>

\* Line 779: update_score rewrites both lists of the score row; then the state
\* is stamped (line 808).
ShotUpdateScore(r) ==
    /\ req[r].pc = "update_score"
    /\ score' = req[r].score_data
    /\ clk' = clk + 1
    /\ req' = [req EXCEPT ![r] =
                  [@ EXCEPT !.pc = "record",
                            !.state_data = [@ EXCEPT !.created_at = <<now, clk + 1>>]]]
    /\ UNCHANGED <<session_vars, pubsub, now, match, bound, state, shot_info, published, served, start_lock, stream, scoring>>

\* record_shot_result: the shot record, the post-shot state and the previous
\* state's shot_id, in one transaction.
record_shot_result(shot_info_data, post_state, pre_state_id) ==
    /\ shot_info' = Append(shot_info, shot_info_data)
    /\ state' = Append([state EXCEPT ![pre_state_id].shot_id = Len(shot_info) + 1],
                       post_state)

ShotRecord(r) ==
    /\ req[r].pc = "record"
    /\ record_shot_result([team_id |-> req[r].pre_state_data.next_shot_team_id,
                           pre_shot_state_id |-> req[r].pre_state_id,
                           post_shot_state_id |-> Len(state) + 1],
                          req[r].state_data, req[r].pre_state_id)
    /\ req' = [req EXCEPT ![r] = [@ EXCEPT !.pc = "publish",
                                           !.post_state_id = Len(state) + 1,
                                           !.pre_score_data = NoScore]]
    /\ UNCHANGED <<session_vars, pubsub, now, clk, match, bound, score, published, served, start_lock, stream, scoring>>

\* state_end_number_update up to its commit: the first state of the next end,
\* with the clocks and the winner of the state it follows.
NextEndState(m, state_data, next_shot_team_id, created_at) ==
    [state_data EXCEPT
        !.end_number = state_data.end_number + 1,
        !.shot_number = IF m.game_mode = "mix_doubles" THEN NULL ELSE 0,
        !.total_shot_number = IF m.game_mode = "mix_doubles" THEN NULL ELSE 0,
        !.stone_coordinate = generate_reset_stone_coordinate_data(m.game_mode),
        !.shot_id = NULL,
        !.next_shot_team_id =
            IF m.game_mode = "mix_doubles" THEN None ELSE next_shot_team_id,
        !.created_at = created_at]

\* Lines 817-839: the state_update notification.  After the last shot of an end
\* that left no winner the handler enters state_end_number_update, which
\* refuses a missing first thrower in standard mode and otherwise builds the
\* next end's first state (stamped here, committed at the next step).
ShotPublish(r) ==
    /\ req[r].pc = "publish"
    /\ published' = Append(published, req[r].post_state_id)
    /\ pubsub' = Publish(pubsub, sub, state_update(req[r].post_state_id))
    /\ IF /\ req[r].state_data.total_shot_number = total_shots_per_end(match.game_mode)
          /\ req[r].state_data.winner_team_id = None
       THEN IF /\ match.game_mode # "mix_doubles"
               /\ req[r].next_end_first_shot_team_id = None
            THEN /\ Respond(r, "Internal Server Error")
                 /\ UNCHANGED clk
            ELSE /\ req' = [req EXCEPT ![r] =
                               [@ EXCEPT !.pc = "end_update",
                                         !.state_data =
                                             NextEndState(match, @,
                                                          req[r].next_end_first_shot_team_id,
                                                          <<now, clk + 1>>)]]
                 /\ clk' = clk + 1
       ELSE /\ Respond(r, "OK")
            /\ UNCHANGED clk
    /\ UNCHANGED <<session_vars, now, match, bound, state, shot_info, score, served, start_lock, stream, scoring>>

\* match_db.set_end_setup_team_for_end under the lock of the settings row: the
\* selector of end_number is written over or appended; a gap in the list raises
\* and leaves the row as it was.
set_end_setup_team_for_end(settings_row, end_number, selector_team_id) ==
    LET selector_list == IF settings_row.end_setup_team_ids = <<>>
                         THEN <<selector_team_id>>
                         ELSE settings_row.end_setup_team_ids
    IN  IF end_number < Len(selector_list)
        THEN [settings_row EXCEPT !.end_setup_team_ids =
                 [selector_list EXCEPT ![end_number + 1] = selector_team_id]]
        ELSE IF end_number = Len(selector_list)
        THEN [settings_row EXCEPT !.end_setup_team_ids =
                 Append(selector_list, selector_team_id)]
        ELSE settings_row

\* Lines 829-838: in mixed doubles the selector of the next end is stored
\* before the next end's state.
NextEndSelector(m, end_number, next_end_selector_team_id) ==
    IF m.game_mode = "mix_doubles" /\ next_end_selector_team_id # None
    THEN [m EXCEPT !.mix_doubles_settings =
             set_end_setup_team_for_end(@, end_number + 1, next_end_selector_team_id)]
    ELSE m

\* Lines 829-839 and state_end_number_update, create_state_data: the next
\* end's selector (mixed doubles) and the next end's state are stored.
ShotEndUpdate(r) ==
    /\ req[r].pc = "end_update"
    /\ match' = NextEndSelector(match, req[r].state_data.end_number - 1,
                                req[r].next_end_selector_team_id)
    /\ state' = Append(state, req[r].state_data)
    /\ req' = [req EXCEPT ![r] = [@ EXCEPT !.pc = "end_publish",
                                           !.post_state_id = Len(state) + 1]]
    /\ UNCHANGED <<session_vars, pubsub, now, clk, bound, shot_info, score, published, served, start_lock, stream, scoring>>

\* state_end_number_update, redis.publish; the handler returns.
ShotEndPublish(r) ==
    /\ req[r].pc = "end_publish"
    /\ published' = Append(published, req[r].post_state_id)
    /\ pubsub' = Publish(pubsub, sub, state_update(req[r].post_state_id))
    /\ Respond(r, "OK")
    /\ UNCHANGED <<session_vars, now, clk, match, bound, state, shot_info, score, served, start_lock, stream, scoring>>

\* The whole of receive_shot_info for a shot that nothing overlaps: the steps
\* ShotBegin .. ShotEndPublish of one request in a row.  Play is summarised this
\* way while the match is quiet: no shot request has been followed step by
\* step, no request is in flight, no stream has replayed and the clock still
\* shows the unit the match began in.
Quiet == served = 0 /\ now = 0 /\ ~start_lock /\ \A r \in Reqs : Free(r)

PlayShot(caller) ==
    LET pre_state_data == read_latest_state_data
        pre_state_id == LatestId(state)
    IN  /\ Quiet
        /\ caller \in bound
        /\ pre_state_data.end_number <= LastEndPlayed(match.game_mode)
        /\ pre_state_data.winner_team_id = None
        /\ pre_state_data.next_shot_team_id = TeamId(caller)
        /\ pre_state_data.total_shot_number # NULL
        /\ \E simulated \in Outcomes(match.game_mode, pre_state_data) :
              LET res == ShotResult(match, pre_state_data, score, caller, now, simulated)
                  post_state == [res.state_data EXCEPT !.created_at = <<now, clk + 1>>]
                  next_end == /\ res.last
                              /\ post_state.winner_team_id = None
                              /\ \/ match.game_mode = "mix_doubles"
                                 \/ res.next_end_first_shot_team_id # None
                  recorded == Append([state EXCEPT ![pre_state_id].shot_id =
                                                       Len(shot_info) + 1],
                                     post_state)
              IN  /\ score' = res.score_data
                  /\ shot_info' = Append(shot_info,
                                         [team_id |-> pre_state_data.next_shot_team_id,
                                          pre_shot_state_id |-> pre_state_id,
                                          post_shot_state_id |-> Len(state) + 1])
                  /\ match' = IF next_end
                              THEN NextEndSelector(match, pre_state_data.end_number,
                                                   res.next_end_selector_team_id)
                              ELSE match
                  /\ IF next_end
                     THEN /\ state' = Append(recorded,
                                             NextEndState(match, post_state,
                                                          res.next_end_first_shot_team_id,
                                                          <<now, clk + 2>>))
                          /\ published' = published \o <<Len(state) + 1, Len(state) + 2>>
                          /\ pubsub' = Publish(Publish(pubsub, sub, state_update(Len(state) + 1)),
                                               sub, state_update(Len(state) + 2))
                          /\ clk' = clk + 2
                     ELSE /\ state' = recorded
                          /\ published' = Append(published, Len(state) + 1)
                          /\ pubsub' = Publish(pubsub, sub, state_update(Len(state) + 1))
                          /\ clk' = clk + 1
        /\ UNCHANGED <<session_vars, now, bound, req, served, start_lock, stream, scoring>>

\* ------------------------------------------------------------ event stream
\* _replay_current_end_states, lines 205-213: a player stream that passed the
\* barrier (both teams configured) reads the latest state; when that is the
\* untouched first state of end 0 it takes the start lock (SET NX) and goes on
\* to restart that state's clock.
ReplayRead ==
    /\ stream.pc = "idle"
    /\ match.first_team_name # None /\ match.second_team_name # None
    /\ read_latest_state_data.end_number = 0
    /\ read_latest_state_data.total_shot_number \in {NULL, 0}
    /\ ~start_lock
    /\ start_lock' = TRUE
    /\ stream' = [pc |-> "update", state_id |-> LatestId(state)]
    /\ UNCHANGED <<session_vars, pubsub, now, clk, match, bound, state, shot_info, score, published, req,
                   served, scoring>>

\* UpdateData.update_created_at_state_data: created_at = datetime.now().
update_created_at_state_data(state_id) ==
    /\ state' = [state EXCEPT ![state_id].created_at = <<now, clk + 1>>]
    /\ clk' = clk + 1

ReplayUpdate ==
    /\ stream.pc = "update"
    /\ update_created_at_state_data(stream.state_id)
    /\ stream' = [pc |-> "idle", state_id |-> 0]
    /\ UNCHANGED <<session_vars, pubsub, now, match, bound, shot_info, score, published, req,
                   served, start_lock, scoring>>

Next ==
    \/ Tick
    \/ \E expected_match_team_name \in Teams : store_team_config(expected_match_team_name)
    \/ \E caller \in Teams : PlayShot(caller)
    \/ \E r \in Reqs, user \in Teams \cup {None} : ShotBegin(r, user)
    \/ \E r \in Reqs : ShotRead(r)
    \/ \E r \in Reqs : ShotSimulate(r)
    \/ \E r \in Reqs : ShotUpdateScore(r)
    \/ \E r \in Reqs : ShotRecord(r)
    \/ \E r \in Reqs : ShotPublish(r)
    \/ \E r \in Reqs : ShotEndUpdate(r)
    \/ \E r \in Reqs : ShotEndPublish(r)
    \/ ReplayRead
    \/ ReplayUpdate

Spec == Init /\ [][Next]_vars

\* ----------------------------------------------------------- scoring alone
\* get_score on its own: called with the distances of any layout of ScoreStones
\* stones per team.
InitScore ==
    /\ now = 0
    /\ clk = 1
    /\ start_match("standard", 1, 0, 0)
    /\ bound = {}
    /\ shot_info = <<>>
    /\ published = <<>>
    /\ req = [r \in Reqs |-> Idle]
    /\ served = 0
    /\ start_lock = FALSE
    /\ stream = [pc |-> "idle", state_id |-> 0]
    /\ NoSession
    /\ \E stones \in [Teams -> [1..ScoreStones -> InPlay \cup {Origin}]] :
          scoring = [distance_list |-> distance_list(stones, ScoreStones),
                     result |-> <<>>]

GetScore ==
    /\ scoring.result = <<>>
    /\ scoring' = [scoring EXCEPT !.result = get_score(scoring.distance_list)]
    /\ UNCHANGED <<session_vars, pubsub, now, clk, match, bound, state, shot_info, score, published, req,
                   served, start_lock, stream>>

NextScore == GetScore

SpecScore == InitScore /\ [][NextScore]_vars

\* ------------------------------------------- store_team_config, step by step
\* The bindings of callers to team slots kept by the authentication service:
\* a caller's slots in the match, and the binding of a caller to a slot.
read_match_data(user) == {match_team_name \in Teams : <<user, match_team_name>> \in auth}

create_match_data(user, match_team_name) == auth \cup {<<user, match_team_name>>}

\* All four keys the barrier waits for exist.
AllKeys(keys) == keys.presence = Teams /\ keys.team_config = Teams

\* POST /store-team-config with the default roster arrives.
ConfigBegin(user, expected_match_team_name) ==
    /\ call[user].pc \in {"idle", "done"}
    /\ called < MaxCalls
    /\ called' = called + 1
    /\ call' = [call EXCEPT ![user] =
                   [NoCall EXCEPT !.pc = "claim",
                                  !.expected_match_team_name = expected_match_team_name,
                                  !.prior = read_match_data(user)]]
    /\ UNCHANGED <<engine_vars, pubsub, auth, redis, sub, emitted, connected, met, signals>>

\* Lines 314-318, update_match_data_with_team_name: under the lock on the match
\* row the free slot is chosen and given the caller's team name.
ConfigClaim(user) ==
    LET your_match_team_name ==
            update_match_data_with_team_name(match, call[user].expected_match_team_name)
    IN  /\ call[user].pc = "claim"
        /\ match' = IF your_match_team_name = "team0"
                    THEN [match EXCEPT !.first_team_name = user]
                    ELSE IF your_match_team_name = "team1"
                    THEN [match EXCEPT !.second_team_name = user]
                    ELSE match
        /\ call' = [call EXCEPT ![user] =
                       [@ EXCEPT !.pc = "bind", !.match_team_name = your_match_team_name]]
        /\ UNCHANGED <<now, clk, bound, state, shot_info, score, published, req, served,
                       start_lock, stream, scoring>>
        /\ UNCHANGED <<pubsub, auth, called, redis, sub, emitted, connected, met, signals>>

\* Lines 321-330: a caller that got no slot is looked up among the bindings
\* (check_match_data answers 401 when it has none); a caller that got a slot is
\* bound to it.
ConfigBind(user) ==
    /\ call[user].pc = "bind"
    /\ IF call[user].match_team_name = None
       THEN /\ IF read_match_data(user) = {}
               THEN call' = [call EXCEPT ![user] =
                                [@ EXCEPT !.pc = "done",
                                          !.status = "Unauthorized: Invalid match data"]]
               ELSE \E match_team_name \in read_match_data(user) :
                       call' = [call EXCEPT ![user] =
                                   [@ EXCEPT !.pc = "signal",
                                             !.match_team_name = match_team_name]]
            /\ UNCHANGED <<auth, bound>>
       ELSE /\ auth' = create_match_data(user, call[user].match_team_name)
            /\ bound' = bound \cup {call[user].match_team_name}
            /\ call' = [call EXCEPT ![user] = [@ EXCEPT !.pc = "signal"]]
    /\ UNCHANGED <<now, clk, match, state, shot_info, score, published, req, served,
                   start_lock, stream, scoring>>
    /\ UNCHANGED <<pubsub, called, redis, sub, emitted, connected, met, signals>>

\* Lines 341-357, the default roster: the slot's team_config key is set,
\* team_config_updated is published and the slot is returned.
ConfigSignal(user) ==
    /\ call[user].pc = "signal"
    /\ redis' = [redis EXCEPT !.team_config = @ \cup {call[user].match_team_name}]
    /\ met' = (met \/ AllKeys(redis'))
    /\ pubsub' = Publish(pubsub, sub, Notice("team_config_updated"))
    /\ call' = [call EXCEPT ![user] = [@ EXCEPT !.pc = "done", !.status = "OK"]]
    /\ UNCHANGED <<engine_vars, auth, called, sub, emitted, connected, signals>>

NextConfig ==
    \/ \E user \in Users, expected_match_team_name \in Teams :
          ConfigBegin(user, expected_match_team_name)
    \/ \E user \in Users : ConfigClaim(user)
    \/ \E user \in Users : ConfigBind(user)
    \/ \E user \in Users : ConfigSignal(user)

SpecConfig == Init /\ [][NextConfig]_vars

\* ------------------------------------------------------------ event streams
\* RedisSubscriber.event_generator for the connections of a match: the player
\* stream of each team and a viewer stream.  Keep-alive pings carry nothing and
\* are not recorded; emitted[c] lists the snapshots connection c was sent.
Players == Conns \ {"viewer", "team0_again"}

\* Every player stream: "team0_again" is a second stream opened by team0's
\* client while its first one may still be running.
PlayerStreams == Conns \ {"viewer"}

\* RedisSubscriber.match_team_name of connection c.
stream_team_name(c) == IF c = "team0_again" THEN "team0" ELSE c

\* StateModel.mix_doubles_settings of a match that has no settings row (None).
NoSettingsModel ==
    [end_setup_team |-> None, positioned_stones_pattern |-> NULL,
     power_play_end |-> [team0 |-> NULL, team1 |-> NULL]]

\* The team the converter names as selector: the team of the end setup row it
\* was given, and the first team when it was given none.
end_setup_team(mix_doubles_end_setup) ==
    IF (IF mix_doubles_end_setup # None THEN mix_doubles_end_setup
        ELSE first_team_id) = first_team_id
    THEN "team0" ELSE "team1"

\* convert_stateschema_to_statemodel, the mix_doubles_settings it puts in the
\* StateModel: mix_doubles_end_setup is the end_setup_team_id of the row passed
\* as fourth argument, None when the caller passes none.
convert_stateschema_to_statemodel(match_data, mix_doubles_end_setup) ==
    IF match_data.mix_doubles_settings = NoSettings THEN NoSettingsModel
    ELSE [end_setup_team |-> end_setup_team(mix_doubles_end_setup),
          positioned_stones_pattern |->
              match_data.mix_doubles_settings.positioned_stones_pattern,
          power_play_end |->
              [team0 |-> match_data.mix_doubles_settings.team0_power_play_end,
               team1 |-> match_data.mix_doubles_settings.team1_power_play_end]]

\* A snapshot that is always flagged as history.
SnapshotAsHistory(event, state_id) == [event |-> "state_update", state_id |-> state_id, mix_doubles_settings |-> convert_stateschema_to_statemodel(match, None)]

\* The event a stream yields: the three callers (redis_subscriber.py lines 106,
\* 230 and 294) convert the state with the match row they have just read and
\* pass no end setup row.
Snapshot(event, state_id) == [event |-> event, state_id |-> state_id, mix_doubles_settings |-> convert_stateschema_to_statemodel(match, None)]

\* GET .../stream after check_match_data found the caller's slot, or
\* GET .../viewer: the generator starts and subscribes to the channel, line 48.
StreamConnect(c) ==
    /\ sub[c].pc = "off"
    /\ connected < MaxConnects
    /\ c \in PlayerStreams => stream_team_name(c) \in bound
    /\ connected' = connected + 1
    /\ sub' = [sub EXCEPT ![c] =
                  [Off EXCEPT !.pc = IF c = "viewer" THEN "viewer_sync" ELSE "presence"]]
    /\ pubsub' = [pubsub EXCEPT ![c] = <<>>]
    /\ emitted' = [emitted EXCEPT ![c] = <<>>]
    /\ UNCHANGED <<engine_vars, auth, call, called, redis, met, signals>>

\* Lines 136-146: the stream's presence key is set and presence_updated is
\* published; no stream acts on that message, and the two round trips are taken
\* together.
SubPresence(c) ==
    /\ sub[c].pc = "presence"
    /\ redis' = [redis EXCEPT !.presence = @ \cup {stream_team_name(c)}]
    /\ met' = (met \/ AllKeys(redis'))
    /\ pubsub' = Publish(pubsub, sub, Notice("presence_updated"))
    /\ sub' = [sub EXCEPT ![c] = [@ EXCEPT !.pc = "read_match"]]
    /\ UNCHANGED <<engine_vars, auth, call, called, emitted, connected, signals>>

\* Lines 149-157: when the match row names both teams, both team_config keys
\* are set.
SubReadMatch(c) ==
    /\ sub[c].pc = "read_match"
    /\ redis' = IF match.first_team_name # None /\ match.second_team_name # None
                THEN [redis EXCEPT !.team_config = Teams]
                ELSE redis
    /\ met' = (met \/ AllKeys(redis'))
    /\ sub' = [sub EXCEPT ![c] = [@ EXCEPT !.pc = "loop"]]
    /\ UNCHANGED <<engine_vars, pubsub, auth, call, called, emitted, connected, signals>>

\* A barrier that counts the team_config keys alone.
barrier_configured(keys) == keys.team_config = Teams

\* Lines 164-168: both teams configured and both streams connected.
barrier_reached(keys) == AllKeys(keys)

\* Lines 162-170, the head of the barrier loop: the keys are counted.
SubLoop(c) ==
    /\ sub[c].pc = "loop"
    /\ sub' = [sub EXCEPT ![c] =
                  [@ EXCEPT !.pc = IF /\ barrier_reached(redis)
                                      /\ sub[c].waiting_for_initial_sync_signal
                                   THEN "signal" ELSE "get"]]
    /\ UNCHANGED <<engine_vars, pubsub, auth, call, called, redis, emitted, connected,
                   met, signals>>

\* A SET NX that never succeeds.
acquired_never(keys) == FALSE

\* Line 173, SET signal_lock NX: TRUE when the key was absent.
acquired(keys) == ~keys.signal_lock

\* Lines 172-179: the stream tries the signal lock; without it it stops waiting
\* to signal.
SubSignal(c) ==
    /\ sub[c].pc = "signal"
    /\ IF acquired(redis)
       THEN /\ redis' = [redis EXCEPT !.signal_lock = TRUE]
            /\ sub' = [sub EXCEPT ![c] = [@ EXCEPT !.pc = "publish_sync"]]
       ELSE /\ sub' = [sub EXCEPT ![c] =
                          [@ EXCEPT !.pc = "get",
                                    !.waiting_for_initial_sync_signal = FALSE]]
            /\ UNCHANGED redis
    /\ UNCHANGED <<engine_vars, pubsub, auth, call, called, emitted, connected, met, signals>>

\* Lines 175-179: the holder of the lock publishes initial_sync.
SubPublishSync(c) ==
    /\ sub[c].pc = "publish_sync"
    /\ pubsub' = Publish(pubsub, sub, Notice("initial_sync"))
    /\ signals' = signals + 1
    /\ sub' = [sub EXCEPT ![c] =
                  [@ EXCEPT !.pc = "get", !.waiting_for_initial_sync_signal = FALSE]]
    /\ UNCHANGED <<engine_vars, auth, call, called, redis, emitted, connected, met>>

\* Lines 181-198: the next message, or a ping after HEART_BEAT seconds without
\* one; only initial_sync leads on to the replay.
SubGet(c) ==
    /\ sub[c].pc = "get"
    /\ IF pubsub[c] = <<>>
       THEN /\ sub' = [sub EXCEPT ![c] = [@ EXCEPT !.pc = "loop"]]
            /\ UNCHANGED pubsub
       ELSE /\ pubsub' = [pubsub EXCEPT ![c] = Tail(@)]
            /\ sub' = [sub EXCEPT ![c] =
                          [@ EXCEPT !.pc = IF Head(pubsub[c]).type = "initial_sync"
                                           THEN "replay" ELSE "loop"]]
    /\ UNCHANGED <<engine_vars, auth, call, called, redis, emitted, connected, met, signals>>

\* A player stream that is between two redis or database round trips, not
\* blocked in get_message waiting for a message.
Busy(c) ==
    \/ sub[c].pc \in {"presence", "read_match", "loop", "signal", "publish_sync",
                      "replay", "restamp", "emit"}
    \/ sub[c].pc = "get" /\ pubsub[c] # <<>>

\* The signal lock lapses (ex=5).  Five seconds outlast the round trips of a
\* pass through the barrier loop: the lock lapses while the streams at the
\* barrier are blocked waiting for a message.
SignalLockExpire ==
    /\ redis.signal_lock
    /\ \A c \in PlayerStreams : ~Busy(c)
    /\ redis' = [redis EXCEPT !.signal_lock = FALSE]
    /\ signals' = 0
    /\ UNCHANGED <<engine_vars, pubsub, auth, call, called, sub, emitted, connected, met>>

\* ORDER BY shot_number of postgres: ascending, rows without a shot_number last.
ShotNumberKey(i) ==
    IF state[i].shot_number = NULL THEN STANDARD_TOTAL_SHOTS_PER_END + 1
    ELSE state[i].shot_number

\* The orders a query may return the rows in: by the sort key, rows with equal
\* keys in any order.
RECURSIVE Orderings(_)
Orderings(rows) ==
    IF rows = {} THEN {<<>>}
    ELSE LET first == {i \in rows : \A j \in rows : ShotNumberKey(i) <= ShotNumberKey(j)}
         IN  UNION {{<<i>> \o rest : rest \in Orderings(rows \ {i})} : i \in first}

\* ReadData.read_state_data_in_end: the states of an end ordered by shot_number.
read_state_data_in_end(end_number) ==
    Orderings({i \in 1..Len(state) : state[i].end_number = end_number})

\* Lines 205-213 of _replay_current_end_states: the latest state is read; if it
\* is the first state of end 0 the stream tries the start lock (SET NX) and with
\* it goes on to restart that state's clock.
SubReplayRead(c) ==
    LET latest_state_data == read_latest_state_data
        first_state == /\ latest_state_data.end_number = 0
                       /\ latest_state_data.total_shot_number \in {NULL, 0}
    IN  /\ sub[c].pc = "replay"
        /\ start_lock' = (start_lock \/ first_state)
        /\ sub' = [sub EXCEPT ![c] =
                      [@ EXCEPT !.pc = IF first_state /\ ~start_lock
                                       THEN "restamp" ELSE "emit",
                                !.state_id = LatestId(state),
                                !.end_number = latest_state_data.end_number]]
        /\ UNCHANGED <<now, clk, match, bound, state, shot_info, score, published, req,
                       served, stream, scoring>>
        /\ UNCHANGED <<pubsub, auth, call, called, redis, emitted, connected, met, signals>>

\* Lines 214-216: update_created_at_state_data on the state read.
SubReplayRestamp(c) ==
    /\ sub[c].pc = "restamp"
    /\ update_created_at_state_data(sub[c].state_id)
    /\ sub' = [sub EXCEPT ![c] = [@ EXCEPT !.pc = "emit"]]
    /\ UNCHANGED <<now, match, bound, shot_info, score, published, req, served,
                   start_lock, stream, scoring>>
    /\ UNCHANGED <<pubsub, auth, call, called, redis, emitted, connected, met, signals>>

\* Lines 235-238: the last item of the list is sent as latest_state_update, the
\* others as state_update.
ReplayEvents(state_data_in_end) ==
    [i \in 1..Len(state_data_in_end) |->
        Snapshot(IF i = Len(state_data_in_end) THEN "latest_state_update"
                 ELSE "state_update",
                 state_data_in_end[i])]

\* Lines 217-238: the states of the end of the state read are fetched and sent
\* one after the other; the stream then leaves the barrier (line 198).
SubReplayEmit(c) ==
    /\ sub[c].pc = "emit"
    /\ \E state_data_in_end \in read_state_data_in_end(sub[c].end_number) :
          emitted' = [emitted EXCEPT ![c] = @ \o ReplayEvents(state_data_in_end)]
    /\ sub' = [sub EXCEPT ![c] = [@ EXCEPT !.pc = "steady", !.replays = @ + 1,
                                           !.states_at_sync = Len(state)]]
    /\ UNCHANGED <<engine_vars, pubsub, auth, call, called, redis, connected, met, signals>>

\* _initial_sync_for_viewer: the latest state is sent once.
ViewerSync(c) ==
    /\ sub[c].pc = "viewer_sync"
    /\ emitted' = [emitted EXCEPT ![c] =
                      Append(@, Snapshot("latest_state_update", LatestId(state)))]
    /\ sub' = [sub EXCEPT ![c] = [@ EXCEPT !.pc = "steady",
                                           !.states_at_sync = Len(state)]]
    /\ UNCHANGED <<engine_vars, pubsub, auth, call, called, redis, connected, met, signals>>

\* Line 271: the message types the steady loop passes over.
Coordination == {"presence_updated", "team_config_updated", "initial_sync",
                 "__internal_replay__"}

\* _stream_latest_updates: the next message of the queue; for a state_update the
\* state it names is read and sent as latest_state_update.
SubSteady(c) ==
    /\ sub[c].pc = "steady"
    /\ pubsub[c] # <<>>
    /\ pubsub' = [pubsub EXCEPT ![c] = Tail(@)]
    /\ emitted' = IF Head(pubsub[c]).type \in Coordination
                  THEN emitted
                  ELSE [emitted EXCEPT ![c] =
                           Append(@, Snapshot("latest_state_update",
                                              Head(pubsub[c]).state_id))]
    /\ UNCHANGED <<engine_vars, auth, call, called, redis, sub, connected, met, signals>>

\* Lines 75-81, the client goes away: the generator unsubscribes and a player
\* stream deletes its presence key.
Disconnect(c) ==
    /\ sub[c].pc # "off"
    /\ sub' = [sub EXCEPT ![c] = Off]
    /\ pubsub' = [pubsub EXCEPT ![c] = <<>>]
    /\ redis' = IF c \in PlayerStreams
                THEN [redis EXCEPT !.presence = @ \ {stream_team_name(c)}]
                ELSE redis
    /\ UNCHANGED <<engine_vars, auth, call, called, emitted, connected, met, signals>>


\* The steps of connection c's generator and of caller user's configuration
\* request once they have begun.
StreamStep(c) ==
    \/ SubPresence(c) \/ SubReadMatch(c) \/ SubLoop(c) \/ SubSignal(c)
    \/ SubPublishSync(c) \/ SubGet(c) \/ SubReplayRead(c) \/ SubReplayRestamp(c)
    \/ SubReplayEmit(c) \/ ViewerSync(c) \/ SubSteady(c)

ConfigStep(user) == ConfigClaim(user) \/ ConfigBind(user) \/ ConfigSignal(user)

\* The event loop runs every coroutine that can go on.
Scheduling ==
    /\ \A c \in Conns : WF_vars(StreamStep(c))
    /\ \A user \in Users : WF_vars(ConfigStep(user))

\* The match of the barrier specifications: one standard end.
InitBarrier == Init /\ match.standard_end_count = 1 /\ match.time_limit = 1
                    /\ match.extra_end_time_limit = 1

\* Configuration requests and the player streams of a match, each stream
\* staying connected.
NextBarrier ==
    \/ \E user \in Users, expected_match_team_name \in Teams :
          ConfigBegin(user, expected_match_team_name)
    \/ \E user \in Users : ConfigClaim(user)
    \/ \E user \in Users : ConfigBind(user)
    \/ \E user \in Users : ConfigSignal(user)
    \/ \E c \in Players : StreamConnect(c)
    \/ \E c \in Players : SubPresence(c)
    \/ \E c \in Players : SubReadMatch(c)
    \/ \E c \in Players : SubLoop(c)
    \/ \E c \in Players : SubSignal(c)
    \/ \E c \in Players : SubPublishSync(c)
    \/ \E c \in Players : SubGet(c)
    \/ \E c \in Players : SubReplayRead(c)
    \/ \E c \in Players : SubReplayRestamp(c)
    \/ \E c \in Players : SubReplayEmit(c)
    \/ \E c \in Players : SubSteady(c)
    \/ SignalLockExpire

SpecBarrier == InitBarrier /\ [][NextBarrier]_vars /\ Scheduling


\* A match of one standard end after u1 configured team0 and u2 team1, each
\* with the default roster: no stream yet.
InitConfigured ==
    /\ now = 0
    /\ clk = 1
    /\ match = [game_mode |-> "standard", standard_end_count |-> 1, time_limit |-> 1,
                extra_end_time_limit |-> 1,
                first_team_name |-> "u1", second_team_name |-> "u2",
                mix_doubles_settings |-> NoSettings]
    /\ score = [team0 |-> <<0, 0>>, team1 |-> <<0, 0>>]
    /\ state = << [NoState EXCEPT
                     !.shot_number = 0,
                     !.total_shot_number = 0,
                     !.first_team_remaining_time = 1,
                     !.second_team_remaining_time = 1,
                     !.first_team_extra_end_remaining_time = 1,
                     !.second_team_extra_end_remaining_time = 1,
                     !.stone_coordinate = generate_reset_stone_coordinate_data("standard"),
                     !.next_shot_team_id = first_team_id,
                     !.created_at = <<0, 1>>] >>
    /\ bound = Teams
    /\ shot_info = <<>>
    /\ published = <<>>
    /\ req = [r \in Reqs |-> Idle]
    /\ served = 0
    /\ start_lock = FALSE
    /\ stream = [pc |-> "idle", state_id |-> 0]
    /\ scoring = NoScoring
    /\ auth = {<<"u1", "team0">>, <<"u2", "team1">>}
    /\ call = [u \in Users |->
                  [NoCall EXCEPT !.pc = "done", !.status = "OK",
                                 !.expected_match_team_name = "team0",
                                 !.match_team_name = IF u = "u1" THEN "team0" ELSE "team1"]]
    /\ called = 2
    /\ redis = [NoKeys EXCEPT !.team_config = Teams]
    /\ sub = [c \in Conns |-> Off]
    /\ pubsub = [c \in Conns |-> <<>>]
    /\ emitted = [c \in Conns |-> <<>>]
    /\ connected = 0
    /\ met = FALSE
    /\ signals = 0

\* The player streams of a configured match, going away and coming back.
NextReconnect ==
    \/ \E c \in Players : StreamConnect(c)
    \/ \E c \in Players : SubPresence(c)
    \/ \E c \in Players : SubReadMatch(c)
    \/ \E c \in Players : SubLoop(c)
    \/ \E c \in Players : SubSignal(c)
    \/ \E c \in Players : SubPublishSync(c)
    \/ \E c \in Players : SubGet(c)
    \/ \E c \in Players : SubReplayRead(c)
    \/ \E c \in Players : SubReplayRestamp(c)
    \/ \E c \in Players : SubReplayEmit(c)
    \/ \E c \in Players : SubSteady(c)
    \/ \E c \in Players : Disconnect(c)
    \/ SignalLockExpire

SpecReconnect == InitConfigured /\ [][NextReconnect]_vars /\ Scheduling


\* The database and redis round trips of shot request r; the answer of the
\* simulator, an outside service, is not among the steps the event loop is sure
\* to take.
ShotStep(r) ==
    \/ ShotRead(r) \/ ShotUpdateScore(r) \/ ShotRecord(r)
    \/ ShotPublish(r) \/ ShotEndUpdate(r) \/ ShotEndPublish(r)

\* Shots played before any stream is connected.
PlayBefore(caller) ==
    /\ \A c \in Conns : sub[c].pc = "off"
    /\ connected = 0
    /\ PlayShot(caller)

\* The player streams of a configured match in which shots were played: the
\* barrier and the replay.
NextReplay ==
    \/ \E caller \in Teams : PlayBefore(caller)
    \/ \E c \in Players : StreamConnect(c)
    \/ \E c \in Players : SubPresence(c)
    \/ \E c \in Players : SubReadMatch(c)
    \/ \E c \in Players : SubLoop(c)
    \/ \E c \in Players : SubSignal(c)
    \/ \E c \in Players : SubPublishSync(c)
    \/ \E c \in Players : SubGet(c)
    \/ \E c \in Players : SubReplayRead(c)
    \/ \E c \in Players : SubReplayRestamp(c)
    \/ \E c \in Players : SubReplayEmit(c)

SpecReplay == InitConfigured /\ [][NextReplay]_vars /\ Scheduling

\* The viewer stream of a configured match while shots are posted and team0's
\* player stream waits at the barrier for its opponent.
NextViewer ==
    \/ \E c \in {"viewer", "team0"} : StreamConnect(c)
    \/ ViewerSync("viewer")
    \/ SubSteady("viewer")
    \/ SubPresence("team0")
    \/ SubReadMatch("team0")
    \/ SubLoop("team0")
    \/ SubGet("team0")
    \/ \E c \in {"viewer", "team0"} : Disconnect(c)
    \/ \E r \in Reqs, user \in Teams : ShotBegin(r, user)
    \/ \E r \in Reqs : ShotRead(r)
    \/ \E r \in Reqs : ShotSimulate(r)
    \/ \E r \in Reqs : ShotRecord(r)
    \/ \E r \in Reqs : ShotPublish(r)

SpecViewer ==
    /\ InitConfigured
    /\ [][NextViewer]_vars
    /\ Scheduling
    /\ \A r \in Reqs : WF_vars(ShotStep(r))


\* A viewer stream that stays connected while shots are posted, anywhere in
\* the end.
NextSteady ==
    \/ \E caller \in Teams : PlayBefore(caller)
    \/ StreamConnect("viewer")
    \/ ViewerSync("viewer")
    \/ SubSteady("viewer")
    \/ \E r \in Reqs, user \in Teams : ShotBegin(r, user)
    \/ \E r \in Reqs : ShotRead(r)
    \/ \E r \in Reqs : ShotSimulate(r)
    \/ \E r \in Reqs : ShotUpdateScore(r)
    \/ \E r \in Reqs : ShotRecord(r)
    \/ \E r \in Reqs : ShotPublish(r)
    \/ \E r \in Reqs : ShotEndUpdate(r)
    \/ \E r \in Reqs : ShotEndPublish(r)

SpecSteady ==
    /\ InitConfigured
    /\ [][NextSteady]_vars
    /\ Scheduling
    /\ \A r \in Reqs : WF_vars(ShotStep(r))

\* The player streams of a configured match when team0's client opens a second
\* stream: each stream may go away at any time.
NextReplace ==
    \/ \E c \in PlayerStreams : StreamConnect(c)
    \/ \E c \in PlayerStreams : SubPresence(c)
    \/ \E c \in PlayerStreams : SubReadMatch(c)
    \/ \E c \in PlayerStreams : SubLoop(c)
    \/ \E c \in PlayerStreams : SubSignal(c)
    \/ \E c \in PlayerStreams : SubPublishSync(c)
    \/ \E c \in PlayerStreams : SubGet(c)
    \/ \E c \in PlayerStreams : SubReplayRead(c)
    \/ \E c \in PlayerStreams : SubReplayRestamp(c)
    \/ \E c \in PlayerStreams : SubReplayEmit(c)
    \/ \E c \in PlayerStreams : SubSteady(c)
    \/ \E c \in PlayerStreams : Disconnect(c)
    \/ SignalLockExpire

SpecReplace == InitConfigured /\ [][NextReplace]_vars /\ Scheduling

\* ---------------------------------------------------------------- end_setup
\* POST /matches/{match_id}/end-setup, mixed doubles: the selector of the end
\* chooses the positioned stones.  Coordinates are in thousandths of the
\* source's unit.
PositionedStonesModel == {"pp_left", "pp_right", "center_house", "center_guard"}

MD_POSITIONED_STONE_IN_HOUSE == <<0, 38870>>
MD_POWER_PLAY_IN_HOUSE == <<1219, 38260>>

MD_POSITIONED_STONE_GUARD ==
    << <<0, 35350>>, <<0, 35060>>, <<0, 34435>>, <<0, 34145>>, <<0, 33520>>, <<0, 33230>> >>

MD_POWER_PLAY_GUARD ==
    << <<1093, 35350>>, <<1087, 35060>>, <<1073, 34435>>, <<1067, 34145>>,
       <<1053, 33520>>, <<1047, 33230>> >>

\* The layout with the hammer team's positioned stone among the guards.
generate_initial_stones_hammer_guard(hammer_team_name, power_play_side, positioned_stones_pattern) ==
    LET x_sign == IF power_play_side = "left" THEN 0 - 1 ELSE 1
        power_play == power_play_side \in {"left", "right"}
        house == IF power_play
                 THEN <<MD_POWER_PLAY_IN_HOUSE[1] * x_sign, MD_POWER_PLAY_IN_HOUSE[2]>>
                 ELSE MD_POSITIONED_STONE_IN_HOUSE
        guard == IF power_play
                 THEN <<MD_POWER_PLAY_GUARD[positioned_stones_pattern + 1][1] * x_sign,
                        MD_POWER_PLAY_GUARD[positioned_stones_pattern + 1][2]>>
                 ELSE MD_POSITIONED_STONE_GUARD[positioned_stones_pattern + 1]
        stones(team) == [i \in 1..8 |->
                            IF i # 1 THEN Origin
                            ELSE IF team = hammer_team_name THEN guard ELSE house]
    IN  [kind |-> "positioned", count |-> 8,
         team0 |-> stones("team0"), team1 |-> stones("team1")]

\* generate_mixed_doubles_initial_stones(..., hammer_stone_position="house"):
\* eight stones per team, the first of each placed: the house stone for the
\* hammer team and the guard of the pattern for the other; the power play
\* coordinates are those of the right side, mirrored in x for the left.
generate_mixed_doubles_initial_stones(hammer_team_name, power_play_side, positioned_stones_pattern) ==
    LET x_sign == IF power_play_side = "left" THEN 0 - 1 ELSE 1
        power_play == power_play_side \in {"left", "right"}
        house == IF power_play
                 THEN <<MD_POWER_PLAY_IN_HOUSE[1] * x_sign, MD_POWER_PLAY_IN_HOUSE[2]>>
                 ELSE MD_POSITIONED_STONE_IN_HOUSE
        guard == IF power_play
                 THEN <<MD_POWER_PLAY_GUARD[positioned_stones_pattern + 1][1] * x_sign,
                        MD_POWER_PLAY_GUARD[positioned_stones_pattern + 1][2]>>
                 ELSE MD_POSITIONED_STONE_GUARD[positioned_stones_pattern + 1]
        stones(team) == [i \in 1..8 |->
                            IF i # 1 THEN Origin
                            ELSE IF team = hammer_team_name THEN house ELSE guard]
    IN  [kind |-> "positioned", count |-> 8,
         team0 |-> stones("team0"), team1 |-> stones("team1")]

\* Lines 163-177: the selector recorded for the end of the state the caller
\* read; None when the list has no entry for it.
expected_selector_team_id(settings_row, current_end) ==
    LET selector_list == IF settings_row.end_setup_team_ids = <<>>
                         THEN <<second_team_id>>
                         ELSE settings_row.end_setup_team_ids
    IN  IF current_end >= Len(selector_list) THEN None
        ELSE selector_list[current_end + 1]

\* The side asked for, in regular and extra ends alike.
power_play_side_in_any_end(request, is_extra_end) ==
    IF request = "pp_left" THEN "left"
    ELSE IF request = "pp_right" THEN "right"
    ELSE None

\* Lines 191-213: the side of the power play asked for; none for the centre
\* options and none in an extra end.
power_play_side(request, is_extra_end) ==
    IF is_extra_end THEN None
    ELSE IF request = "pp_left" THEN "left"
    ELSE IF request = "pp_right" THEN "right"
    ELSE None

\* A selector that always keeps the hammer.
selector_always_hammer(request, is_extra_end) == TRUE

\* Lines 191-213: the selector throws second unless it chose center_guard; a
\* power play asked for in an extra end is taken as center_house.
selector_is_hammer(request, is_extra_end) ==
    IF request \in {"pp_left", "pp_right"} THEN TRUE
    ELSE request = "center_house"

\* A power play that is never counted as used.
power_play_unused(settings_row, match_team_name) == NULL

\* Lines 225-229: the end in which the caller's team used its power play.
used_end(settings_row, match_team_name) ==
    IF match_team_name = "team0" THEN settings_row.team0_power_play_end
    ELSE settings_row.team1_power_play_end

\* A check of the selector that lets every caller through.
caller_is_anyone(settings_row, current_end, caller_team_id) == TRUE

\* Lines 176-179: the caller is the selector of the end.
caller_is_selector(settings_row, current_end, caller_team_id) ==
    caller_team_id = expected_selector_team_id(settings_row, current_end)

\* perform_mix_doubles_end_setup, one transaction under the lock of the
\* settings row: the error it raises, or the settings row it leaves and the
\* setup state it adds (stamped by the caller).
perform_mix_doubles_end_setup(match_data, latest_state, match_team_name, request) ==
    LET settings_row == match_data.mix_doubles_settings
        caller_team_id == TeamId(match_team_name)
        other_team_id == OtherTeamId(caller_team_id)
        other_team_name == IF match_team_name = "team0" THEN "team1" ELSE "team0"
        current_end == latest_state.end_number
        is_extra_end == current_end >= match_data.standard_end_count
        side == power_play_side(request, is_extra_end)
        power_play_requested == side # None
        is_hammer == selector_is_hammer(request, is_extra_end)
        hammer_team_name == IF is_hammer THEN match_team_name ELSE other_team_name
        first_throw_team_id == IF is_hammer THEN other_team_id ELSE caller_team_id
        unchanged == [error |-> None, settings_row |-> settings_row, setup_state |-> NoState]
    IN  IF expected_selector_team_id(settings_row, current_end) = None
        THEN [unchanged EXCEPT
                 !.error = "Conflict: end_setup_team_ids is missing entries for current end."]
        ELSE IF ~caller_is_selector(settings_row, current_end, caller_team_id)
        THEN [unchanged EXCEPT !.error = "Conflict: Not your turn to setup positioned stones."]
        ELSE IF power_play_requested /\ used_end(settings_row, match_team_name) # NULL
        THEN [unchanged EXCEPT !.error = "Conflict: Power play already used."]
        ELSE [error |-> None,
              settings_row |->
                  IF ~power_play_requested THEN settings_row
                  ELSE IF match_team_name = "team0"
                  THEN [settings_row EXCEPT !.team0_power_play_end = current_end]
                  ELSE [settings_row EXCEPT !.team1_power_play_end = current_end],
              setup_state |->
                  [latest_state EXCEPT
                      !.winner_team_id = None,
                      !.shot_number = 0,
                      !.total_shot_number = 0,
                      !.stone_coordinate =
                          generate_mixed_doubles_initial_stones(
                              hammer_team_name, side,
                              settings_row.positioned_stones_pattern),
                      !.shot_id = NULL,
                      !.next_shot_team_id = first_throw_team_id]]

\* Lines 853-873: the answer of the router before the transaction, None when
\* the request goes on to it: the caller's team binding (check_match_data), the
\* game mode, the settings, the winner, and a latest state that waits for the
\* end's setup.
end_setup_refusal(match_data, latest_state, user) ==
    IF user \notin bound THEN "Unauthorized: Invalid match data"
    ELSE IF match_data.game_mode # "mix_doubles"
    THEN "Bad Request: end-setup is only for mix_doubles."
    ELSE IF match_data.mix_doubles_settings = NoSettings
    THEN "Conflict: Mixed doubles settings missing."
    ELSE IF latest_state.winner_team_id # None THEN "Conflict: Match already finished."
    ELSE IF \/ latest_state.next_shot_team_id # None
            \/ latest_state.total_shot_number # NULL
    THEN "Conflict: End already started."
    ELSE None

\* The slot of an end-setup request that has been answered.
Answered(user, request, status, post_state_id) ==
    [Idle EXCEPT !.pc = "done", !.team = user, !.request = request,
                 !.status = status, !.post_state_id = post_state_id]

\* Lines 853-873 of a request followed step by step: the match and the latest
\* state are read.  A new request takes the lowest free slot; at most
\* MaxRequests requests are followed step by step.
SetupRead(r, user, request) ==
    LET latest_state == read_latest_state_data
        refusal == end_setup_refusal(match, latest_state, user)
    IN  /\ Free(r)
        /\ \A q \in Reqs : q < r => ~Free(q)
        /\ served < MaxRequests
        /\ served' = served + 1
        /\ req' = [req EXCEPT ![r] =
                      IF refusal # None THEN Answered(user, request, refusal, 0)
                      ELSE [Idle EXCEPT !.pc = "setup", !.team = user,
                                        !.request = request,
                                        !.pre_state_id = LatestId(state),
                                        !.pre_state_data = latest_state]]
        /\ UNCHANGED <<session_vars, pubsub, now, clk, match, bound, state, shot_info,
                       score, published, start_lock, stream, scoring>>

\* Lines 875-886: the transaction; a ValueError is answered with Conflict and
\* nothing is stored, otherwise the settings row and the setup state are
\* committed together.
SetupTransact(r) ==
    LET res == perform_mix_doubles_end_setup(match, req[r].pre_state_data,
                                             req[r].team, req[r].request)
    IN  /\ req[r].pc = "setup"
        /\ IF res.error # None
           THEN /\ req' = [req EXCEPT ![r] =
                              Answered(req[r].team, req[r].request, res.error, 0)]
                /\ UNCHANGED <<match, state, clk>>
           ELSE /\ match' = [match EXCEPT !.mix_doubles_settings = res.settings_row]
                /\ state' = Append(state, [res.setup_state EXCEPT
                                              !.created_at = <<now, clk + 1>>])
                /\ clk' = clk + 1
                /\ req' = [req EXCEPT ![r] =
                              [@ EXCEPT !.pc = "setup_publish",
                                        !.post_state_id = Len(state) + 1]]
        /\ UNCHANGED <<session_vars, pubsub, now, bound, shot_info, score, published,
                       served, start_lock, stream, scoring>>

\* Lines 888-897: the setup state is announced and the handler returns.
SetupPublish(r) ==
    /\ req[r].pc = "setup_publish"
    /\ published' = Append(published, req[r].post_state_id)
    /\ pubsub' = Publish(pubsub, sub, state_update(req[r].post_state_id))
    /\ req' = [req EXCEPT ![r] =
                  Answered(req[r].team, req[r].request, "OK", req[r].post_state_id)]
    /\ UNCHANGED <<session_vars, now, clk, match, bound, state, shot_info, score, served,
                   start_lock, stream, scoring>>

\* The whole of end_setup for a request that nothing overlaps: the steps
\* SetupRead .. SetupPublish in a row, answered in slot 1.  Requests are
\* summarised this way while the match is quiet.
EndSetup(user, request) ==
    LET latest_state == read_latest_state_data
        refusal == end_setup_refusal(match, latest_state, user)
        res == perform_mix_doubles_end_setup(match, latest_state, user, request)
    IN  /\ Quiet
        /\ IF refusal # None
           THEN /\ req' = [req EXCEPT ![1] = Answered(user, request, refusal, 0)]
                /\ UNCHANGED <<match, state, clk, published, pubsub>>
           ELSE IF res.error # None
           THEN /\ req' = [req EXCEPT ![1] = Answered(user, request, res.error, 0)]
                /\ UNCHANGED <<match, state, clk, published, pubsub>>
           ELSE /\ match' = [match EXCEPT !.mix_doubles_settings = res.settings_row]
                /\ state' = Append(state, [res.setup_state EXCEPT
                                              !.created_at = <<now, clk + 1>>])
                /\ clk' = clk + 1
                /\ published' = Append(published, Len(state) + 1)
                /\ pubsub' = Publish(pubsub, sub, state_update(Len(state) + 1))
                /\ req' = [req EXCEPT ![1] =
                              Answered(user, request, "OK", Len(state) + 1)]
        /\ UNCHANGED <<session_vars, now, bound, shot_info, score, served, start_lock,
                       stream, scoring>>

\* Lines 153-157 of start_match: a client chooses a pattern from 0 to 5; the
\* matches followed have the first or the last of them.
Patterns == {0, 5}

\* A mixed doubles match of two standard ends after POST /matches.
InitSetup ==
    /\ now = 0
    /\ clk = 1
    /\ \E positioned_stones_pattern \in Patterns :
          match = [game_mode |-> "mix_doubles", standard_end_count |-> 2,
                   time_limit |-> 1, extra_end_time_limit |-> 1,
                   first_team_name |-> None, second_team_name |-> None,
                   mix_doubles_settings |->
                       MatchMixDoublesSettings(positioned_stones_pattern)]
    /\ score = [team0 |-> <<0, 0, 0>>, team1 |-> <<0, 0, 0>>]
    /\ state = << [NoState EXCEPT
                     !.first_team_remaining_time = 1,
                     !.second_team_remaining_time = 1,
                     !.first_team_extra_end_remaining_time = 1,
                     !.second_team_extra_end_remaining_time = 1,
                     !.stone_coordinate = generate_reset_stone_coordinate_data("mix_doubles"),
                     !.created_at = <<0, 1>>] >>
    /\ bound = {}
    /\ shot_info = <<>>
    /\ published = <<>>
    /\ req = [r \in Reqs |-> Idle]
    /\ served = 0
    /\ start_lock = FALSE
    /\ stream = [pc |-> "idle", state_id |-> 0]
    /\ scoring = NoScoring
    /\ NoSession

\* A mixed doubles match: the teams are configured, the ends are set up by
\* requests of which MaxRequests may overlap, shots are played one at a time
\* and a player stream may replay end 0.
NextSetup ==
    \/ \E expected_match_team_name \in Teams : store_team_config(expected_match_team_name)
    \/ \E user \in Teams, request \in PositionedStonesModel : EndSetup(user, request)
    \/ \E r \in Reqs, user \in Teams, request \in PositionedStonesModel :
          SetupRead(r, user, request)
    \/ \E r \in Reqs : SetupTransact(r)
    \/ \E r \in Reqs : SetupPublish(r)
    \/ \E caller \in Teams : PlayShot(caller)
    \/ ReplayRead
    \/ ReplayUpdate

SpecSetup == InitSetup /\ [][NextSetup]_vars

\* A mixed doubles match in which shots too are followed step by step: of the
\* MaxRequests requests of the window each is a shot or an end setup, and they
\* may overlap.
NextAwait ==
    \/ \E expected_match_team_name \in Teams : store_team_config(expected_match_team_name)
    \/ \E user \in Teams, request \in PositionedStonesModel : EndSetup(user, request)
    \/ \E caller \in Teams : PlayShot(caller)
    \/ \E r \in Reqs, user \in Teams : ShotBegin(r, user)
    \/ \E r \in Reqs : ShotRead(r)
    \/ \E r \in Reqs : ShotSimulate(r)
    \/ \E r \in Reqs : ShotUpdateScore(r)
    \/ \E r \in Reqs : ShotRecord(r)
    \/ \E r \in Reqs : ShotPublish(r)
    \/ \E r \in Reqs : ShotEndUpdate(r)
    \/ \E r \in Reqs : ShotEndPublish(r)
    \/ \E r \in Reqs, user \in Teams, request \in PositionedStonesModel :
          SetupRead(r, user, request)
    \/ \E r \in Reqs : SetupTransact(r)
    \/ \E r \in Reqs : SetupPublish(r)

\* The match of InitSetup with the first pattern.
InitAwait == InitSetup /\ match.mix_doubles_settings.positioned_stones_pattern = 0

SpecAwait == InitAwait /\ [][NextAwait]_vars

\* record_shot_result when the database fails inside session.begin(): whichever
\* of the three writes raised, the transaction is rolled back, nothing of it
\* is stored and the exception leaves the handler (500).
ShotRecordFail(r) ==
    /\ req[r].pc = "record"
    /\ Respond(r, "Internal Server Error")
    /\ UNCHANGED <<session_vars, pubsub, now, clk, match, bound, state, shot_info, score,
                   published, served, start_lock, stream, scoring>>

\* A standard match of one end with a second on each clock, after POST /matches.
InitFail ==
    /\ Init
    /\ match.standard_end_count = 1
    /\ match.time_limit = 1
    /\ match.extra_end_time_limit = 1

\* The match session engine with a database that may fail on the shot's
\* transaction.
NextFail ==
    \/ Next
    \/ \E r \in Reqs : ShotRecordFail(r)

SpecFail == InitFail /\ [][NextFail]_vars

\* Lines 364-366 and 386-388: a request with a custom roster that the handler
\* refuses (standard mode without player3 or player4, or a missing player): it
\* raises 400 after the slot was claimed and the caller bound, and before the
\* team_config key is set.
ConfigReject(user) ==
    /\ call[user].pc = "signal"
    /\ call' = [call EXCEPT ![user] =
                   [@ EXCEPT !.pc = "done",
                             !.status = "Bad Request: player3 and player4 are required for standard mode."]]
    /\ UNCHANGED <<engine_vars, pubsub, auth, called, redis, sub, emitted, connected,
                   met, signals>>

\* Configuration requests, some of them with a roster that is refused, and the
\* player streams of a match.
NextRoster ==
    \/ NextBarrier
    \/ \E user \in Users : ConfigReject(user)

SpecRoster == InitBarrier /\ [][NextRoster]_vars

\* A mixed doubles match of one standard end (end 1 is an extra end) with the
\* first pattern, after POST /matches.
InitClock ==
    /\ now = 0
    /\ clk = 1
    /\ match = [game_mode |-> "mix_doubles", standard_end_count |-> 1,
                time_limit |-> 1, extra_end_time_limit |-> 1,
                first_team_name |-> None, second_team_name |-> None,
                mix_doubles_settings |-> MatchMixDoublesSettings(0)]
    /\ score = [team0 |-> <<0, 0>>, team1 |-> <<0, 0>>]
    /\ state = << [NoState EXCEPT
                     !.first_team_remaining_time = 1,
                     !.second_team_remaining_time = 1,
                     !.first_team_extra_end_remaining_time = 1,
                     !.second_team_extra_end_remaining_time = 1,
                     !.stone_coordinate = generate_reset_stone_coordinate_data("mix_doubles"),
                     !.created_at = <<0, 1>>] >>
    /\ bound = {}
    /\ shot_info = <<>>
    /\ published = <<>>
    /\ req = [r \in Reqs |-> Idle]
    /\ served = 0
    /\ start_lock = FALSE
    /\ stream = [pc |-> "idle", state_id |-> 0]
    /\ scoring = NoScoring
    /\ NoSession

\* The match of InitClock while the wall clock advances: shots and end setups
\* in the regular end and in the extra end.
NextClock ==
    \/ Tick
    \/ NextAwait

SpecClock == InitClock /\ [][NextClock]_vars

\* The viewer stream of a mixed doubles match: the teams are configured and
\* end 0 is set up, then MaxRequests shots are posted and followed step by
\* step, while the viewer connects, is sent the latest state, follows the
\* channel and goes away.
NextSnapshot ==
    \/ \E expected_match_team_name \in Teams : store_team_config(expected_match_team_name)
    \/ \E user \in Teams, request \in PositionedStonesModel : EndSetup(user, request)
    \/ \E r \in Reqs, user \in Teams : ShotBegin(r, user)
    \/ \E r \in Reqs : ShotRead(r)
    \/ \E r \in Reqs : ShotSimulate(r)
    \/ \E r \in Reqs : ShotRecord(r)
    \/ \E r \in Reqs : ShotPublish(r)
    \/ StreamConnect("viewer")
    \/ ViewerSync("viewer")
    \/ SubSteady("viewer")
    \/ Disconnect("viewer")

SpecSnapshot == InitAwait /\ [][NextSnapshot]_vars

\* ------------------------------------------------------------------ claims
Rows == 1..Len(state)
Shots == 1..Len(shot_info)

\* The states that accepted shots produced.
PostShotRows == {shot_info[k].post_shot_state_id : k \in Shots}

\* C1: within every end the states with a total_shot_number carry, in creation
\* order, 0, 1, 2, ... up to the number of shots of an end, and no state of that
\* end follows the one that carries that number.
C1_ShotNumbersCountUp ==
    \A i \in Rows :
        state[i].total_shot_number # NULL =>
            /\ state[i].total_shot_number =
                   Cardinality({k \in 1..(i - 1) :
                                   /\ state[k].end_number = state[i].end_number
                                   /\ state[k].total_shot_number # NULL})
            /\ state[i].total_shot_number <= total_shots_per_end(match.game_mode)

\* C2: of two consecutive states that accepted shots produced in one end, before
\* the end's last shot, the later names the other team to throw next than the
\* earlier, both name one of the two teams, and every shot record carries the
\* team the state it was thrown from named.
C2_TurnsAlternate ==
    /\ \A i \in PostShotRows, j \in PostShotRows :
          ( /\ i < j
            /\ state[i].end_number = state[j].end_number
            /\ state[j].total_shot_number < total_shots_per_end(match.game_mode)
            /\ ~\E k \in PostShotRows :
                   i < k /\ k < j /\ state[k].end_number = state[j].end_number )
          => /\ state[j].next_shot_team_id \in {first_team_id, second_team_id}
             /\ state[i].next_shot_team_id \in {first_team_id, second_team_id}
             /\ state[j].next_shot_team_id # state[i].next_shot_team_id
    /\ \A k \in Shots :
          shot_info[k].team_id = state[shot_info[k].pre_shot_state_id].next_shot_team_id

\* C3: a shot request of a team bound to the match that the latest state does
\* not name as next to throw is answered "Conflict: Not your turn." and changes
\* no state, shot record, layout, clock, score or notification.
C3_NotYourTurnHasNoEffect ==
    [][ \A r \in Reqs :
          ( /\ req[r].pc = "read"
            /\ req'[r] # req[r]
            /\ read_latest_state_data.winner_team_id = None
            /\ read_latest_state_data.next_shot_team_id # None
            /\ read_latest_state_data.total_shot_number # NULL
            /\ req[r].team \in bound
            /\ TeamId(req[r].team) # read_latest_state_data.next_shot_team_id )
          => /\ req'[r].pc = "done"
             /\ req'[r].status = "Conflict: Not your turn."
             /\ state' = state
             /\ shot_info' = shot_info
             /\ score' = score
             /\ published' = published ]_vars

\* A team was turned away for throwing out of turn in a match with shots played.
C3_Witness ==
    \E r \in Reqs :
        /\ req[r].pc = "done"
        /\ req[r].status = "Conflict: Not your turn."
        /\ req[r].team \in bound
        /\ Len(shot_info) > 0

\* C4: a match never holds two states with the same end_number and
\* total_shot_number, nor two shot records thrown from the same state.
C4_OneShotPerState ==
    /\ \A i \in Rows, j \in Rows :
          ( /\ i # j
            /\ state[i].total_shot_number # NULL
            /\ state[i].end_number = state[j].end_number )
          => state[i].total_shot_number # state[j].total_shot_number
    /\ \A k \in Shots, l \in Shots :
          k # l => shot_info[k].pre_shot_state_id # shot_info[l].pre_shot_state_id

\* C5: once the latest state has a winner, a shot request that is answered is
\* answered with Conflict, no state is created any more and the latest state
\* keeps its winner.
C5_MatchCompleteIsTerminal ==
    [][ read_latest_state_data.winner_team_id # None =>
          /\ \A r \in Reqs :
                (req[r].pc = "read" /\ req'[r].pc # "read") =>
                    /\ req'[r].pc = "done"
                    /\ req'[r].status = "Conflict: Match already finished."
          /\ Len(state') = Len(state)
          /\ read_latest_state_data'.winner_team_id =
                 read_latest_state_data.winner_team_id ]_vars

\* The states of an end, its first states and the states its last shot produced.
EndRows(end_number) == {i \in Rows : state[i].end_number = end_number}

\* The states of an end that no shot produced: the ones that open it.
OpeningRows(end_number) == EndRows(end_number) \ PostShotRows

LastShotRows ==
    {i \in PostShotRows :
        state[i].total_shot_number = total_shots_per_end(match.game_mode)}

\* No request is in a handler.
Quiescent == \A r \in Reqs : Free(r)

\* Every clock of the state still shows time: no clock ran out on the way to it.
ClocksRunning(i) ==
    /\ state[i].first_team_remaining_time > 0
    /\ state[i].second_team_remaining_time > 0
    /\ state[i].first_team_extra_end_remaining_time > 0
    /\ state[i].second_team_extra_end_remaining_time > 0

\* C6: the state the last shot of end e produces without a clock forfeit: from
\* the last standard end on it has a winner exactly when the totals differ, the
\* team with the larger total, and then end e+1 gets no state; with equal totals
\* it has no winner and end e+1 gets exactly one state; before the last standard
\* end it has no winner and end e+1 gets exactly one state.  (Read while the
\* score row is as the end's last shot left it: no later end was played to its
\* last shot and no last shot has written its score without being recorded.)
C6_EndDecidesMatch ==
    \A i \in LastShotRows :
        LET e == state[i].end_number
            team0_total_score == calculate_score(score.team0)
            team1_total_score == calculate_score(score.team1)
            one_next == /\ Cardinality(OpeningRows(e + 1)) <= 1
                        /\ Quiescent => Cardinality(OpeningRows(e + 1)) = 1
        IN  ( /\ ClocksRunning(i)
              /\ \A j \in LastShotRows : state[j].end_number <= e
              /\ \A r \in Reqs : req[r].pc # "record" )
            => IF e >= match.standard_end_count - 1
               THEN /\ (state[i].winner_team_id # None)
                           <=> (team0_total_score # team1_total_score)
                    /\ team0_total_score > team1_total_score
                           => state[i].winner_team_id = first_team_id
                    /\ team0_total_score < team1_total_score
                           => state[i].winner_team_id = second_team_id
                    /\ state[i].winner_team_id # None => EndRows(e + 1) = {}
                    /\ state[i].winner_team_id = None => one_next
               ELSE /\ state[i].winner_team_id = None
                    /\ one_next

\* The request's shot ran the acting team's applicable clock out: the remaining
\* time less the time since the previous state was created is negative.
ClockRanOut(r) ==
    LET pre_state_data == req[r].pre_state_data
        elapsed == req[r].end_time - pre_state_data.created_at[1]
        remaining ==
            IF pre_state_data.end_number < match.standard_end_count
            THEN IF req[r].team = "team0"
                 THEN pre_state_data.first_team_remaining_time
                 ELSE pre_state_data.second_team_remaining_time
            ELSE IF req[r].team = "team0"
                 THEN pre_state_data.first_team_extra_end_remaining_time
                 ELSE pre_state_data.second_team_extra_end_remaining_time
    IN  remaining - elapsed < 0

\* C7: the state of a shot that ran the acting team's clock out names the
\* opposing team as winner, and the handler does not go on to open a further end.
C7_ClockForfeitEndsMatch ==
    \A r \in Reqs :
        /\ (req[r].pc = "publish" /\ ClockRanOut(r))
               => state[req[r].post_state_id].winner_team_id =
                      OtherTeamId(TeamId(req[r].team))
        /\ req[r].pc \in {"end_update", "end_publish"} => ~ClockRanOut(r)

\* C8: the state a shot produces shows no more time on any clock than the state
\* it was thrown from, no stored time is negative, and a shot before the end's
\* last one records a winner exactly when it ran the acting team's clock out,
\* then the opposing team.
C8_ClocksOnlyRunDown ==
    /\ \A k \in Shots :
          LET pre == state[shot_info[k].pre_shot_state_id]
              post == state[shot_info[k].post_shot_state_id]
          IN  /\ post.first_team_remaining_time <= pre.first_team_remaining_time
              /\ post.second_team_remaining_time <= pre.second_team_remaining_time
              /\ post.first_team_extra_end_remaining_time
                     <= pre.first_team_extra_end_remaining_time
              /\ post.second_team_extra_end_remaining_time
                     <= pre.second_team_extra_end_remaining_time
    /\ \A i \in Rows :
          /\ state[i].first_team_remaining_time >= 0
          /\ state[i].second_team_remaining_time >= 0
          /\ state[i].first_team_extra_end_remaining_time >= 0
          /\ state[i].second_team_extra_end_remaining_time >= 0
    /\ \A r \in Reqs :
          ( /\ req[r].pc = "publish"
            /\ state[req[r].post_state_id].total_shot_number
                   < total_shots_per_end(match.game_mode) )
          => IF ClockRanOut(r)
             THEN state[req[r].post_state_id].winner_team_id =
                      OtherTeamId(TeamId(req[r].team))
             ELSE state[req[r].post_state_id].winner_team_id = None

\* C10: standard mode, the last shot of end e scored for a team and left no
\* winner: slot e of the score row holds that team's points and 0 for the other
\* team, and end e+1 has exactly one state, with total_shot_number 0,
\* shot_number 0, every stone at the origin and the team that did not score
\* named to throw first.
C10_NextEndAfterScore ==
    \A i \in LastShotRows :
        LET e == state[i].end_number
            scored0 == score.team0[e + 1] > 0
            scored1 == score.team1[e + 1] > 0
        IN  ( /\ match.game_mode = "standard"
              /\ e < match.standard_end_count
              /\ state[i].winner_team_id = None
              /\ scored0 \/ scored1 )
            => /\ ~(scored0 /\ scored1)
               /\ Cardinality(OpeningRows(e + 1)) <= 1
               /\ Quiescent => Cardinality(OpeningRows(e + 1)) = 1
               /\ \A n \in OpeningRows(e + 1) :
                     /\ state[n].total_shot_number = 0
                     /\ state[n].shot_number = 0
                     /\ state[n].stone_coordinate =
                            generate_reset_stone_coordinate_data(match.game_mode)
                     /\ state[n].next_shot_team_id =
                            IF scored0 THEN second_team_id ELSE first_team_id

\* Stone i comes before stone j in the order of the distances, the stone listed
\* first coming first among stones at one distance.
Before(i, j) ==
    \/ scoring.distance_list[i][2] < scoring.distance_list[j][2]
    \/ /\ scoring.distance_list[i][2] = scoring.distance_list[j][2]
       /\ i < j

Stones == 1..Len(scoring.distance_list)

Closest == CHOOSE i \in Stones : \A j \in Stones \ {i} : Before(i, j)

WithinOrAt(i) == scoring.distance_list[i][2] <= SCORE_DISTANCE * SCORE_DISTANCE

StrictlyWithin(i) == scoring.distance_list[i][2] < SCORE_DISTANCE * SCORE_DISTANCE

C11_ConcurrentClaimsGetDistinctSlots ==
    [][ /\ \A user \in Users : \A other \in Users \ {user} :
              /\ read_match_data(user)' \cap read_match_data(other)' = {}
              /\ ( /\ called' = 2
                   /\ call'[user].pc \in {"bind", "signal", "done"}
                   /\ call'[other].pc \in {"bind", "signal", "done"}
                   /\ call'[user].expected_match_team_name = "team0"
                   /\ call'[other].expected_match_team_name = "team0" )
                 => {call'[user].match_team_name, call'[other].match_team_name} = Teams
        /\ match.first_team_name # None => match'.first_team_name = match.first_team_name
        /\ match.second_team_name # None
               => match'.second_team_name = match.second_team_name ]_vars

\* Two requests for team0 were both past the claim before either was bound.
C11_Witness ==
    /\ called = 2
    /\ \A user \in Users :
          /\ call[user].pc = "bind"
          /\ call[user].expected_match_team_name = "team0"
    /\ {call[user].match_team_name : user \in Users} = Teams

\* C12: a configuration request of a caller already bound to a slot returns
\* that slot and claims no other: no caller is bound to both slots and no caller
\* holds both team names of the match.
C12_ReconnectKeepsSlot ==
    /\ \A user \in Users :
          /\ ( /\ call[user].pc = "done"
               /\ call[user].status = "OK"
               /\ call[user].prior # {} )
             => call[user].match_team_name \in call[user].prior
          /\ Cardinality(read_match_data(user)) <= 1
    /\ match.first_team_name # None => match.first_team_name # match.second_team_name


\* C13: a player stream is sent no snapshot, and does not start its replay,
\* before both presence keys and both team-config keys have existed together;
\* the notifications it reads before that leave emitted empty.
C13_NoSnapshotBeforeBarrier ==
    \A c \in Players :
        \/ met
        \/ /\ emitted[c] = <<>>
           /\ sub[c].pc \notin {"replay", "restamp", "emit", "steady"}

\* A player stream in steady state after its replay, both presence keys set.
C13_Witness ==
    \E c \in Players :
        /\ met
        /\ emitted[c] # <<>>
        /\ sub[c].pc = "steady"
        /\ redis.presence = Teams

\* C14: once both player streams are connected and both team_config keys
\* exist, each stream comes to replay the end, its last event flagged
\* latest_state_update.
C14_BarrierOpens ==
    \A c \in Players :
        (/\ \A d \in Players : sub[d].pc # "off"
         /\ redis.team_config = Teams)
        ~> (/\ sub[c].replays = 1
            /\ emitted[c] # <<>>
            /\ emitted[c][Len(emitted[c])].event = "latest_state_update")

\* Both streams replayed.
C14_Witness ==
    \A c \in Players :
        /\ sub[c].replays = 1
        /\ emitted[c] # <<>>
        /\ emitted[c][Len(emitted[c])].event = "latest_state_update"


\* C15: a player stream connected anew while both team_config keys exist and
\* its opponent is in steady state, presence key set, comes to replay the end
\* (unless it or its opponent goes away first); it does not stay on keep-alives
\* for ever.
C15_ReconnectReplays ==
    \A c \in Players :
        (/\ sub[c].pc \notin {"off", "steady"}
         /\ redis.team_config = Teams
         /\ redis.presence = Teams
         /\ \A d \in Players \ {c} : sub[d].pc = "steady")
        ~> (\/ sub[c].replays = 1
            \/ sub[c].pc = "off"
            \/ \E d \in Players \ {c} : sub[d].pc = "off")


\* The player streams that passed line 179 and wait for initial_sync.
Signalled == {c \in Players : /\ sub[c].pc \in {"loop", "get"}
                              /\ ~sub[c].waiting_for_initial_sync_signal
                              /\ sub[c].replays = 0}

\* C16, at most one: while the signal lock exists at most one initial_sync is
\* published and at most one stream holds the lock about to publish; a
\* connection replays at most once.
C16_AtMostOneSignal ==
    /\ signals <= 1
    /\ Cardinality({c \in Players : sub[c].pc = "publish_sync"}) <= 1
    /\ \A c \in Players : sub[c].replays <= 1

\* C16: when both player streams reached the barrier together, exactly one of
\* them took the signal lock and published initial_sync; and a connection
\* replays at most once.
C16_ExactlyOneSignal ==
    /\ C16_AtMostOneSignal
    /\ Signalled = Players => signals = 1


\* C17: the replay of a player stream lists every state of the current end
\* once, in the order the states were created, the last one, the end's newest
\* state, flagged latest_state_update and the others state_update.
C17_ReplayInCreationOrder ==
    \A c \in Players :
        sub[c].replays = 1 /\ sub[c].pc = "steady" =>
            LET replay == emitted[c]
                in_end == {i \in 1..Len(state) : state[i].end_number = sub[c].end_number}
            IN  /\ Len(replay) = Cardinality(in_end)
                /\ {replay[i].state_id : i \in 1..Len(replay)} = in_end
                /\ \A i \in 1..Len(replay) : \A j \in 1..Len(replay) :
                       i < j => replay[i].state_id < replay[j].state_id
                /\ \A i \in 1..Len(replay) :
                       replay[i].event = IF i = Len(replay) THEN "latest_state_update"
                                         ELSE "state_update"


\* C18: on one stream a snapshot of a state is never followed by a snapshot
\* of a state created before it.
C18_SnapshotsMonotone ==
    \A c \in Conns :
        \A i \in 1..Len(emitted[c]) : \A j \in 1..Len(emitted[c]) :
            i < j => emitted[c][i].state_id <= emitted[c][j].state_id


\* Connection c was sent a snapshot of state k.
Sent(c, k) == \E i \in 1..Len(emitted[c]) : emitted[c][i].state_id = k

C20_ViewerBypassesBarrier ==
    [][/\ sub'["viewer"].pc \in {"off", "viewer_sync", "steady"}
       /\ (\/ sub'["viewer"] # sub["viewer"]
           \/ emitted'["viewer"] # emitted["viewer"]
           \/ Len(pubsub'["viewer"]) < Len(pubsub["viewer"]))
          => redis' = redis
       /\ sub["viewer"].pc = "off" /\ sub'["viewer"].pc # "off"
          => sub'["viewer"].pc = "viewer_sync" /\ emitted'["viewer"] = <<>>
       /\ sub["viewer"].pc = "viewer_sync" /\ sub'["viewer"].pc \notin {"viewer_sync", "off"}
          => /\ sub'["viewer"].pc = "steady"
             /\ Len(emitted'["viewer"]) = 1
             /\ emitted'["viewer"][1].event = "latest_state_update"
             /\ emitted'["viewer"][1].state_id = LatestId(state)
      ]_vars

\* The viewer was sent the latest state, the second, while team0's player
\* stream waits at the barrier with team1's presence key missing.
C20_Witness ==
    /\ sub["viewer"].pc = "steady"
    /\ Len(emitted["viewer"]) = 1
    /\ emitted["viewer"][1].event = "latest_state_update"
    /\ emitted["viewer"][1].state_id = 2
    /\ redis.presence = {"team0"}
    /\ sub["team0"].pc \in {"loop", "get"}

\* A player stream that has set its presence key and has not been torn down.
Running(c) == sub[c].pc \notin {"off", "presence"}

\* The teams that have a running player stream.
TeamsRunning == {stream_team_name(c) : c \in {d \in PlayerStreams : Running(d)}}

\* C21: a team's presence key exists for as long as a player stream of that
\* team is connected and running, also after the team opened a newer stream, so
\* both presence keys are counted whenever both teams have a running stream.
C21_PresenceWhileConnected ==
    /\ TeamsRunning \subseteq redis.presence
    /\ TeamsRunning = Teams => barrier_reached(redis)

\* C22: the teardown of a stream deletes no presence key but its own: the key
\* of a team that still has another running stream stays, and the teardown of
\* the viewer's stream leaves every presence key.
C22_TeardownKeepsOthersPresence ==
    [][\A c \in Conns :
          sub[c].pc # "off" /\ sub'[c].pc = "off"
          => /\ pubsub'[c] = <<>>
             /\ c = "viewer" => redis'.presence = redis.presence
             /\ \A d \in PlayerStreams \ {c} :
                   Running(d) /\ stream_team_name(d) \in redis.presence
                   => stream_team_name(d) \in redis'.presence]_vars

\* The answers with status Conflict.
Conflicts ==
    {"Conflict: Mixed doubles settings missing.", "Conflict: Match already finished.",
     "Conflict: End already started.",
     "Conflict: end_setup_team_ids is missing entries for current end.",
     "Conflict: Not your turn to setup positioned stones.",
     "Conflict: Power play already used."}

\* An end-setup request is answered in slot r by the step.
SetupAnswered(r) ==
    /\ req'[r].pc = "done"
    /\ req'[r].request # None
    /\ req'[r] # req[r]

\* The selector recorded for the end of the latest state.
CurrentSelector ==
    expected_selector_team_id(match.mix_doubles_settings, read_latest_state_data.end_number)

\* C23: an end-setup request of a team that is not the selector recorded for
\* the current end is answered with Conflict and changes nothing: no state is
\* added, no power play is used and the selector list stays as it is, in any
\* end and with any option.
C23_NonSelectorRefused ==
    [][\A r \in Reqs :
          (/\ SetupAnswered(r)
           /\ req'[r].team \in bound
           /\ TeamId(req'[r].team) # CurrentSelector)
          => /\ req'[r].status \in Conflicts
             /\ state' = state
             /\ match' = match]_vars

\* The non-selector was turned away by the selector check in an end after the
\* first, once with a power play and once with center_guard asked for.
C23_Witness ==
    /\ req[1].pc = "done"
    /\ req[1].status = "Conflict: Not your turn to setup positioned stones."
    /\ req[1].request = "pp_left"
    /\ TeamId(req[1].team) # CurrentSelector
    /\ read_latest_state_data.end_number = 1
    /\ read_latest_state_data.total_shot_number = NULL
    /\ req[2].pc = "done"
    /\ req[2].status = "Conflict: Not your turn to setup positioned stones."
    /\ req[2].request = "center_guard"

\* The setup states of end end_number: the rows with total_shot_number 0.
SetupStates(end_number) ==
    {i \in 1..Len(state) : /\ state[i].end_number = end_number
                           /\ state[i].total_shot_number = 0}

\* The ends that have a row.
Ends == {state[i].end_number : i \in 1..Len(state)}

\* C24: while end-setup requests are made one after another (slot 2 takes a
\* request only while another is in flight), a request of either team for an
\* end that has its setup state is answered with Conflict and adds no state, so
\* no end has more than one setup state.
C24_OneSetupPerEnd ==
    [][req'[2].pc = "idle"
       => /\ \A e \in Ends : Cardinality(SetupStates(e)') <= 1
          /\ (/\ SetupAnswered(1)
              /\ req'[1].team \in bound
              /\ SetupStates(read_latest_state_data.end_number) # {}
              /\ req[1].pc # "setup_publish")
             => /\ req'[1].status \in Conflicts
                /\ state' = state]_vars

\* Both slots hold end-setup requests of the same team that read the same
\* waiting state, and both have been through their transaction.
BothThroughTransaction ==
    /\ \A r \in Reqs : req[r].request # None /\ req[r].pc \in {"setup_publish", "done"}
    /\ req[1].team = req[2].team
    /\ \A r \in Reqs : req[r].status \in {None, "OK"} \cup
                           {"Conflict: Power play already used.",
                            "Conflict: Not your turn to setup positioned stones."}

\* C25: when two end-setup requests of the selector for one end overlap, both
\* having read the waiting state before either commits, one of them adds the
\* setup state and the other is answered with Conflict: no end has two states
\* with total_shot_number 0.  (No stream replay has taken place.)
C25_OneOfTwoConcurrentSetups ==
    ~start_lock
    => /\ \A e \in Ends : Cardinality(SetupStates(e)) <= 1
       /\ BothThroughTransaction
          => \E r \in Reqs : req[r].status \in Conflicts

\* power_play_end of team in the settings row of match row m.
PowerPlayEnd(m, team) ==
    IF team = "team0" THEN m.mix_doubles_settings.team0_power_play_end
    ELSE m.mix_doubles_settings.team1_power_play_end

\* C26: a team's power_play_end changes at most once, from null to the number
\* of the end being set up, and never after; once it is set, every pp_left or
\* pp_right request of that team served in a regular end is answered with
\* Conflict and adds no state, however the requests interleave.
C26_PowerPlayOnce ==
    [][\A team \in Teams :
          /\ PowerPlayEnd(match, team) # NULL
             => PowerPlayEnd(match', team) = PowerPlayEnd(match, team)
          /\ PowerPlayEnd(match', team) # PowerPlayEnd(match, team)
             => PowerPlayEnd(match', team) = read_latest_state_data.end_number
          /\ \A r \in Reqs :
                (/\ SetupAnswered(r)
                 /\ req[r].pc # "setup_publish"
                 /\ req'[r].team = team
                 /\ team \in bound
                 /\ req'[r].request \in {"pp_left", "pp_right"}
                 /\ PowerPlayEnd(match, team) # NULL
                 /\ read_latest_state_data.end_number < match.standard_end_count)
                => /\ req'[r].status \in Conflicts
                   /\ state' = state]_vars

\* A team that used its power play in end 0 asked for it again as the selector
\* of end 1 and was turned away for that.
C26_Witness ==
    /\ req[1].pc = "done"
    /\ req[1].status = "Conflict: Power play already used."
    /\ PowerPlayEnd(match, req[1].team) = 0
    /\ read_latest_state_data.end_number = 1
    /\ read_latest_state_data.total_shot_number = NULL
    /\ TeamId(req[1].team) = CurrentSelector

\* Of two overlapping power play requests of the selector of end 0 the first
\* was accepted and the second turned away.
C26_OverlapWitness ==
    /\ req[1].pc = "setup_publish"
    /\ req[1].request \in {"pp_left", "pp_right"}
    /\ req[2].pc = "done"
    /\ req[2].status = "Conflict: Power play already used."
    /\ req[2].team = req[1].team

\* The transaction of the end-setup request in slot r runs in the step.
TransactionRan(r) ==
    \/ req[r].pc = "setup" /\ req'[r].pc # "setup"
    \/ /\ SetupAnswered(r)
       /\ req[r].pc \notin {"setup", "setup_publish"}
       /\ req'[r].status \in {"OK", "Conflict: Power play already used.",
                              "Conflict: Not your turn to setup positioned stones.",
                              "Conflict: end_setup_team_ids is missing entries for current end."}

\* The layout of center_house chosen by team: its stone in the house, the
\* other team's on the centre guard of the pattern.
CentreHouseLayout(team, positioned_stones_pattern) ==
    [t \in Teams |->
        [i \in 1..8 |-> IF i # 1 THEN Origin
                        ELSE IF t = team THEN <<0, 38870>>
                        ELSE <<0, <<35350, 35060, 34435, 34145, 33520, 33230>>
                                      [positioned_stones_pattern + 1]>>]]

\* C27: a pp_left or pp_right request of the selector for an extra end succeeds
\* as center_house does, whether or not the team has used its power play: the
\* setup state is added, the selector throws second, the stones lie on the
\* centre coordinates, and power_play_end stays as it was.
C27_PowerPlayInExtraEnd ==
    [][\A r \in Reqs :
          (/\ TransactionRan(r)
           /\ req'[r].request \in {"pp_left", "pp_right"}
           /\ TeamId(req'[r].team) = CurrentSelector
           /\ read_latest_state_data.end_number >= match.standard_end_count)
          => LET setup_state == state'[Len(state')]
                 team == req'[r].team
             IN  /\ Len(state') = Len(state) + 1
                 /\ req'[r].status \in {None, "OK"}
                 /\ setup_state.end_number = read_latest_state_data.end_number
                 /\ setup_state.total_shot_number = 0
                 /\ setup_state.next_shot_team_id = OtherTeamId(TeamId(team))
                 /\ setup_state.stone_coordinate.team0 =
                        CentreHouseLayout(team,
                            match.mix_doubles_settings.positioned_stones_pattern).team0
                 /\ setup_state.stone_coordinate.team1 =
                        CentreHouseLayout(team,
                            match.mix_doubles_settings.positioned_stones_pattern).team1
                 /\ match' = match]_vars

\* The selector of the extra end 2, whose power play was used in a regular
\* end, asked for pp_left and the end was set up.
C27_Witness ==
    /\ req[1].pc = "done"
    /\ req[1].status = "OK"
    /\ req[1].request = "pp_left"
    /\ PowerPlayEnd(match, req[1].team) \in {0, 1}
    /\ read_latest_state_data.end_number = 2
    /\ read_latest_state_data.total_shot_number = 0
    /\ match.standard_end_count = 2

\* C28: an end-setup request that succeeds adds exactly one state: it has the
\* end_number of the waiting state the request read, shot_number 0,
\* total_shot_number 0, no winner and no shot, and its next_shot_team is the
\* team that does not have the hammer: the selector's opponent after pp_left,
\* pp_right and center_house, the selector itself after center_guard.
C28_SetupStateCreated ==
    [][\A r \in Reqs :
          TransactionRan(r) /\ state' # state
          => LET setup_state == state'[Len(state')]
                 selector == TeamId(req'[r].team)
                 read_end == IF req[r].pc = "setup"
                             THEN req[r].pre_state_data.end_number
                             ELSE read_latest_state_data.end_number
             IN  /\ Len(state') = Len(state) + 1
                 /\ \A i \in 1..Len(state) : state'[i] = state[i]
                 /\ setup_state.end_number = read_end
                 /\ setup_state.shot_number = 0
                 /\ setup_state.total_shot_number = 0
                 /\ setup_state.winner_team_id = None
                 /\ setup_state.shot_id = NULL
                 /\ setup_state.next_shot_team_id =
                        IF req'[r].request = "center_guard" THEN selector
                        ELSE OtherTeamId(selector)]_vars

\* The selector of end 1 chose center_guard and throws first; in end 0 the
\* selector kept the hammer.
C28_Witness ==
    /\ req[1].pc = "done"
    /\ req[1].status = "OK"
    /\ req[1].request = "center_guard"
    /\ read_latest_state_data.end_number = 1
    /\ read_latest_state_data.total_shot_number = 0
    /\ read_latest_state_data.next_shot_team_id = TeamId(req[1].team)
    /\ \E i \in SetupStates(0) : state[i].next_shot_team_id = first_team_id

\* The house stone and the guard stone of a pattern: on the power play
\* coordinates of the right side, on their mirror image for the left side, or
\* on the centre line when there is no side.
HouseStone(side) ==
    IF side = "right" THEN MD_POWER_PLAY_IN_HOUSE
    ELSE IF side = "left"
    THEN <<0 - MD_POWER_PLAY_IN_HOUSE[1], MD_POWER_PLAY_IN_HOUSE[2]>>
    ELSE MD_POSITIONED_STONE_IN_HOUSE

GuardStone(side, positioned_stones_pattern) ==
    IF side = "right" THEN MD_POWER_PLAY_GUARD[positioned_stones_pattern + 1]
    ELSE IF side = "left"
    THEN <<0 - MD_POWER_PLAY_GUARD[positioned_stones_pattern + 1][1],
           MD_POWER_PLAY_GUARD[positioned_stones_pattern + 1][2]>>
    ELSE MD_POSITIONED_STONE_GUARD[positioned_stones_pattern + 1]

\* The stones of a layout that are away from the origin.
Placed(stones) == {i \in DOMAIN stones : stones[i] # Origin}

\* The layout has one placed stone per team: the house stone for the hammer
\* team and the guard of the pattern for the other team, on the given side.
LayoutIs(stone_coordinate, hammer_team_name, side, positioned_stones_pattern) ==
    \A team \in Teams :
        /\ Cardinality(Placed(stone_coordinate[team])) = 1
        /\ \A i \in Placed(stone_coordinate[team]) :
              stone_coordinate[team][i] =
                  IF team = hammer_team_name THEN HouseStone(side)
                  ELSE GuardStone(side, positioned_stones_pattern)

\* The hammer team after a request of team: the other team for center_guard.
HammerAfter(team, request) ==
    IF request # "center_guard" THEN team
    ELSE IF team = "team0" THEN "team1" ELSE "team0"

\* The side an option names.
SideNamed(request) ==
    IF request = "pp_left" THEN "left"
    ELSE IF request = "pp_right" THEN "right"
    ELSE None

\* C29 as stated: the setup state of a successful request has one placed stone
\* per team, the house stone with the hammer team and the pattern's guard with
\* the other, on the power play coordinates for pp_right, mirrored in x for
\* pp_left, and on the centre coordinates for center_house and center_guard.
C29_LayoutAsStated ==
    [][\A r \in Reqs :
          TransactionRan(r) /\ state' # state
          => LayoutIs(state'[Len(state')].stone_coordinate,
                      HammerAfter(req'[r].team, req'[r].request),
                      SideNamed(req'[r].request),
                      match.mix_doubles_settings.positioned_stones_pattern)]_vars

\* C29 amended: as stated for the regular ends; in an extra end pp_left and
\* pp_right too are laid out on the centre coordinates.
C29_LayoutByEnd ==
    [][\A r \in Reqs :
          TransactionRan(r) /\ state' # state
          => LayoutIs(state'[Len(state')].stone_coordinate,
                      HammerAfter(req'[r].team, req'[r].request),
                      IF state'[Len(state')].end_number >= match.standard_end_count
                      THEN None ELSE SideNamed(req'[r].request),
                      match.mix_doubles_settings.positioned_stones_pattern)]_vars

\* Pattern 5: end 0 was set up with pp_left on the mirrored power play
\* coordinates, and the extra end 2 with pp_right on the centre coordinates.
C29_Witness ==
    /\ match.mix_doubles_settings.positioned_stones_pattern = 5
    /\ \E i \in SetupStates(0) :
          /\ state[i].stone_coordinate.team1[1] = <<0 - 1219, 38260>>
          /\ state[i].stone_coordinate.team0[1] = <<0 - 1047, 33230>>
    /\ req[1].pc = "done"
    /\ req[1].status = "OK"
    /\ req[1].request = "pp_right"
    /\ read_latest_state_data.end_number = 2
    /\ read_latest_state_data.stone_coordinate.kind = "positioned"
    /\ read_latest_state_data.stone_coordinate[req[1].team][1] = <<0, 38870>>

\* A step that ends an end and continues the match: it adds the next end's
\* state, which waits for its setup.
EndFinished ==
    /\ match.game_mode = "mix_doubles"
    /\ Len(state') > Len(state)
    /\ state'[Len(state')].total_shot_number = NULL
    /\ state'[Len(state')].end_number >= 1

\* The end that finished, its row in the score lists, and the team that scored
\* in it (None for a blank end).
FinishedEnd == state'[Len(state')].end_number - 1

FinishedSlot ==
    IF FinishedEnd < match.standard_end_count THEN FinishedEnd + 1
    ELSE match.standard_end_count + 1

ScoredTeamId ==
    IF score'.team0[FinishedSlot] > 0 THEN first_team_id
    ELSE IF score'.team1[FinishedSlot] > 0 THEN second_team_id
    ELSE None

\* The selector recorded for an end in the settings row m.
RecordedSelector(m, end_number) ==
    m.mix_doubles_settings.end_setup_team_ids[end_number + 1]

\* C30 as stated: when end e finishes and the match continues, the selector
\* recorded for end e+1 is the team that scored in end e, and after a blank
\* end the team other than the selector of end e.
C30_ScoringTeamSelects ==
    [][EndFinished
       => /\ Len(match'.mix_doubles_settings.end_setup_team_ids) >= FinishedEnd + 2
          /\ RecordedSelector(match', FinishedEnd + 1) =
                IF ScoredTeamId # None THEN ScoredTeamId
                ELSE OtherTeamId(RecordedSelector(match, FinishedEnd))]_vars

\* C30 amended: when end e finishes and the match continues, the selector
\* recorded for end e+1 is the opponent of the team that scored in end e, and
\* after a blank end the team other than the selector of end e.
C30_OpponentOfScorerSelects ==
    [][EndFinished
       => /\ Len(match'.mix_doubles_settings.end_setup_team_ids) >= FinishedEnd + 2
          /\ RecordedSelector(match', FinishedEnd + 1) =
                IF ScoredTeamId # None THEN OtherTeamId(ScoredTeamId)
                ELSE OtherTeamId(RecordedSelector(match, FinishedEnd))]_vars

\* End 0 was scored by the first team and end 1, as much, by the second: the
\* second team selects for end 1 and the first team for the extra end 2, which
\* waits for its setup.
C30_Witness ==
    /\ match.game_mode = "mix_doubles"
    /\ score.team0[1] > 0
    /\ score.team1[2] = score.team0[1]
    /\ Len(match.mix_doubles_settings.end_setup_team_ids) = 3
    /\ RecordedSelector(match, 1) = second_team_id
    /\ RecordedSelector(match, 2) = first_team_id
    /\ read_latest_state_data.end_number = 2
    /\ read_latest_state_data.total_shot_number = NULL

\* End 0 was blank: the first team selects for end 1, which waits for its
\* setup, the second team having selected for end 0.
C30_BlankWitness ==
    /\ match.game_mode = "mix_doubles"
    /\ score.team0[1] = 0
    /\ score.team1[1] = 0
    /\ Len(match.mix_doubles_settings.end_setup_team_ids) = 2
    /\ RecordedSelector(match, 0) = second_team_id
    /\ RecordedSelector(match, 1) = first_team_id
    /\ read_latest_state_data.end_number = 1
    /\ read_latest_state_data.total_shot_number = NULL

\* A state that waits for its end's setup.
Awaiting(state_data) ==
    /\ state_data.next_shot_team_id = None
    /\ state_data.total_shot_number = NULL

\* The row a step adds is the first of a new end.
NewEndRow ==
    /\ Len(state') > Len(state)
    /\ \A i \in 1..Len(state) : state[i].end_number < state'[Len(state')].end_number

\* The shot request of slot r is answered on its read.
ShotAnsweredOnRead(r) == req[r].pc = "read" /\ req'[r].pc = "done"

\* C31: in mixed doubles the state created at match start and the first state
\* of every later end wait for the end's setup (no next thrower, no shot
\* count); while the current end has no setup state every shot request is
\* answered with Conflict (End setup required) and stores nothing, and no shot
\* is ever recorded from a state of an end that has no setup state.
C31_ShotsWaitForEndSetup ==
    /\ [](match.game_mode = "mix_doubles" => Awaiting(state[1]))
    /\ [][match.game_mode = "mix_doubles"
          => /\ NewEndRow => Awaiting(state'[Len(state')])
             /\ \A r \in Reqs :
                   (/\ req[r].pc = "read" /\ req'[r].pc # "read"
                    /\ SetupStates(read_latest_state_data.end_number) = {})
                   => /\ req'[r].pc = "done"
                      /\ req'[r].status = "Conflict: End setup required."
                      /\ UNCHANGED <<state, shot_info, score, match, published>>
             /\ shot_info' # shot_info
                => SetupStates(state[shot_info'[Len(shot_info')].pre_shot_state_id]
                                   .end_number) # {}]_vars

\* End 0 was set up and played and the match went on: end 1 waits for its
\* setup, and a shot request made then has been answered with Conflict.
C31_Witness ==
    /\ match.game_mode = "mix_doubles"
    /\ Len(shot_info) = MIX_DOUBLES_TOTAL_SHOTS_PER_END
    /\ read_latest_state_data.end_number = 1
    /\ Awaiting(read_latest_state_data)
    /\ \E r \in Reqs : /\ req[r].pc = "done"
                       /\ req[r].status = "Conflict: End setup required."
                       /\ req[r].request = None

\* The shot records that lead to the state with id i.
RecordsOf(i) == {k \in 1..Len(shot_info) : shot_info[k].post_shot_state_id = i}

\* C32: the post-shot state, its shot record and the previous state's shot
\* reference are stored together or not at all: every shot record has its
\* post-shot state and a previous state that refers to a shot, every shot
\* reference of a state names a record thrown from that state, every post-shot
\* state has exactly one shot record, and a transaction that fails stores
\* none of the three.
C32_ShotStoredAtomically ==
    /\ [](/\ \A k \in 1..Len(shot_info) :
                /\ shot_info[k].post_shot_state_id \in 1..Len(state)
                /\ shot_info[k].pre_shot_state_id \in 1..Len(state)
                /\ state[shot_info[k].post_shot_state_id].total_shot_number >= 1
                /\ state[shot_info[k].pre_shot_state_id].shot_id # NULL
          /\ \A i \in 1..Len(state) :
                /\ state[i].shot_id # NULL
                   => /\ state[i].shot_id \in 1..Len(shot_info)
                      /\ shot_info[state[i].shot_id].pre_shot_state_id = i
                /\ state[i].total_shot_number >= 1 => Cardinality(RecordsOf(i)) = 1)
    /\ [][\A r \in Reqs :
             req[r].pc = "record" /\ req'[r].status = "Internal Server Error"
             => UNCHANGED <<state, shot_info>>]_vars

\* One request's transaction failed and stored nothing while the other
\* request's shot is stored with its record and the reference to it.
C32_Witness ==
    /\ \E r \in Reqs : req[r].pc = "done" /\ req[r].status = "Internal Server Error"
    /\ \E r \in Reqs : req[r].pc = "done" /\ req[r].status = "OK"
    /\ Len(shot_info) = 1
    /\ Len(state) = 2
    /\ state[1].shot_id = 1

\* The ends whose last shot is stored.
RecordedEnds ==
    {state[i].end_number :
        i \in {j \in 1..Len(state) :
                  state[j].total_shot_number = total_shots_per_end(match.game_mode)}}

\* The slot of the score lists that end_number is written to.
ScoreSlot(end_number) ==
    IF end_number < match.standard_end_count THEN end_number + 1
    ELSE match.standard_end_count + 1

\* C36: a shot transaction that fails on the last shot of an end leaves the
\* score row as it was when the request read it, so that once every request
\* is answered the score row holds points only for ends whose last shot is
\* stored.
C36_ScoreOnlyWithRecordedEnd ==
    /\ []((\A r \in Reqs : Free(r))
          => \A slot \in 1..Len(score.team0) :
                score.team0[slot] + score.team1[slot] > 0
                => \E end_number \in RecordedEnds : ScoreSlot(end_number) = slot)
    /\ [][\A r \in Reqs :
             (/\ req[r].pc = "record"
              /\ req'[r].status = "Internal Server Error"
              /\ req[r].state_data.total_shot_number =
                     total_shots_per_end(match.game_mode))
             => score' = req[r].pre_score_data]_vars

\* C33: in every state row the next thrower is missing exactly when the row
\* has a winner or, in mixed doubles, waits for the end's setup (no winner and
\* no shot count).
C33_NextShooterMissingIffDone ==
    \A i \in 1..Len(state) :
        state[i].next_shot_team_id = None
        <=> \/ state[i].winner_team_id # None
            \/ /\ match.game_mode = "mix_doubles"
               /\ state[i].winner_team_id = None
               /\ state[i].total_shot_number = NULL

\* Row i was created before row j, by the created_at stamps.
CreatedBefore(rows, i, j) == rows[i].created_at[2] < rows[j].created_at[2]

\* C34: the latest state only moves forward: a step leaves the latest state
\* as it is or makes a state it adds the latest, and the order of the states
\* by creation time never changes.
C34_LatestOnlyMovesForward ==
    [][/\ \/ LatestId(state') = LatestId(state)
          \/ LatestId(state') > Len(state)
       /\ \A i, j \in 1..Len(state) :
             CreatedBefore(state, i, j) => CreatedBefore(state', i, j)]_vars

\* The state ids that have been announced.
Announced == {published[k] : k \in 1..Len(published)}

\* C35: a state_update notification names a state only after the state is
\* stored, and for a post-shot state after its shot record is stored with it:
\* every id announced, and every id carried by a message still on its way to
\* a stream, is the id of a stored state - for shots, end setups and the first
\* states of new ends alike.
C35_AnnouncedAfterCommit ==
    /\ \A id \in Announced :
          /\ id \in 1..Len(state)
          /\ state[id].total_shot_number >= 1 => RecordsOf(id) # {}
    /\ \A c \in Conns : \A k \in 1..Len(pubsub[c]) :
          pubsub[c][k].type = "state_update" => pubsub[c][k].state_id \in 1..Len(state)

\* Requests followed step by step have announced the state of a shot, the
\* first state of the next end and the state of an end setup.
C35_Witness ==
    /\ served = MaxRequests
    /\ \A r \in Reqs : req[r].pc = "done" /\ req[r].status = "OK"
    /\ req[1].request = None
    /\ req[2].request # None
    /\ \E id \in Announced : state[id].total_shot_number = MIX_DOUBLES_TOTAL_SHOTS_PER_END
    /\ \E id \in Announced : state[id].end_number = 1 /\ Awaiting(state[id])
    /\ published[Len(published)] = req[2].post_state_id
    /\ state[req[2].post_state_id].end_number = 1
    /\ state[req[2].post_state_id].total_shot_number = 0

\* The configuration request of user completes for its team at this step.
ConfigCompletes(user, team) ==
    /\ call[user].pc = "signal"
    /\ call[user].match_team_name = team
    /\ call'[user].pc = "done"
    /\ call'[user].status = "OK"

\* C37: the team_config key of a team comes into being only at the step at
\* which a configuration request of that team completes successfully; a
\* request refused after its slot was claimed never sets it.
C37_ConfigKeyOnlyOnSuccess ==
    [][\A team \in Teams :
          (team \in redis'.team_config /\ team \notin redis.team_config)
          => \E user \in Users : ConfigCompletes(user, team)]_vars

\* Each user made one configuration request and team1's was refused for its
\* roster, yet team1's team_config key is set.
C37_RefusedYetConfigured ==
    /\ \A user \in Users : call[user].pc = "done"
    /\ called = 2
    /\ \E user \in Users : /\ call[user].match_team_name = "team1"
                           /\ call[user].status # "OK"
    /\ \E user \in Users : /\ call[user].match_team_name = "team0"
                           /\ call[user].status = "OK"
    /\ auth = {<<"u1", "team0">>, <<"u2", "team1">>}
    /\ "team1" \in redis.team_config

\* The four time budgets of a state: regulation and extra-end time of the
\* first and of the second team.
Budgets(state_data) ==
    <<state_data.first_team_remaining_time, state_data.second_team_remaining_time,
      state_data.first_team_extra_end_remaining_time,
      state_data.second_team_extra_end_remaining_time>>

\* The budget a shot of team_id thrown in end_number is charged to.
ChargedBudget(team_id, end_number) ==
    (IF team_id = first_team_id THEN 1 ELSE 2)
        + (IF end_number < match.standard_end_count THEN 0 ELSE 2)

\* The state a step made its new state from, when the new state is not that
\* of a shot: the state before it for a next end opened with the shot, the
\* post-shot state of the request for a next end opened on its own, the state
\* the request read for an end setup.
MadeFrom ==
    IF Len(state') = Len(state) + 2 THEN state'[Len(state) + 1]
    ELSE IF \E r \in Reqs : req[r].pc = "end_update" /\ req'[r].pc = "end_publish"
    THEN state[req[CHOOSE r \in Reqs : req[r].pc = "end_update"
                                       /\ req'[r].pc = "end_publish"].post_state_id]
    ELSE IF \E r \in Reqs : req[r].pc = "setup" /\ req'[r].pc = "setup_publish"
    THEN req[CHOOSE r \in Reqs : req[r].pc = "setup"
                                 /\ req'[r].pc = "setup_publish"].pre_state_data
    ELSE read_latest_state_data

\* C38: the state of an accepted shot differs from the state the shot was thrown
\* from in at most one time budget, that of the acting team for the kind of end
\* (regulation before standard_end_count, extra-end time from then on); a state
\* made by an end setup or opening a next end has the four budgets of the state
\* it was made from.
C38_OnlyActingBudgetChanges ==
    /\ [](\A k \in 1..Len(shot_info) :
             LET pre == state[shot_info[k].pre_shot_state_id]
                 post == state[shot_info[k].post_shot_state_id]
             IN  \A b \in 1..4 :
                    b # ChargedBudget(shot_info[k].team_id, pre.end_number)
                    => Budgets(post)[b] = Budgets(pre)[b])
    /\ [][(/\ Len(state') > Len(state)
           /\ state'[Len(state')].total_shot_number \in {NULL, 0})
          => Budgets(state'[Len(state')]) = Budgets(MadeFrom)]_vars

\* A shot of the extra end took a second from its thrower's extra-end budget
\* and from no other, after the extra end was opened and set up with the
\* budgets left by the regular end.
C38_Witness ==
    /\ \E k \in 1..Len(shot_info) :
          LET pre == state[shot_info[k].pre_shot_state_id]
              post == state[shot_info[k].post_shot_state_id]
          IN  /\ pre.end_number = 1
              /\ Budgets(pre)[ChargedBudget(shot_info[k].team_id, 1)] = 1
              /\ Budgets(post)[ChargedBudget(shot_info[k].team_id, 1)] = 0
    /\ \E i \in 1..Len(state) : state[i].end_number = 1 /\ state[i].total_shot_number = NULL
    /\ \E i \in SetupStates(1) : Budgets(state[i]) = <<1, 1, 1, 1>>

\* The snapshots a step adds to stream c.
NewSnapshots(c) ==
    IF Len(emitted'[c]) > Len(emitted[c])
    THEN {emitted'[c][k] : k \in (Len(emitted[c]) + 1)..Len(emitted'[c])}
    ELSE {}

\* The match side of a team id.
SideOf(team_id) == IF team_id = first_team_id THEN "team0" ELSE "team1"

\* Snapshot s names as selector the team recorded for the end of its state.
SelectorReported(s) ==
    s.mix_doubles_settings.end_setup_team =
        SideOf(RecordedSelector(match, state[s.state_id].end_number))

\* Snapshot s carries the pattern and the power-play ends of the settings row.
SettingsReported(s) ==
    /\ s.mix_doubles_settings.positioned_stones_pattern =
           match.mix_doubles_settings.positioned_stones_pattern
    /\ s.mix_doubles_settings.power_play_end.team0 =
           match.mix_doubles_settings.team0_power_play_end
    /\ s.mix_doubles_settings.power_play_end.team1 =
           match.mix_doubles_settings.team1_power_play_end

\* C39: every snapshot a stream emits for a mixed doubles match names as end
\* setup selector the team recorded as selector for the end of the snapshot's
\* state (team1 for end 0), and carries the configured pattern and each team's
\* power-play end as stored when it is emitted.
C39_SnapshotReportsSelector ==
    [][match.game_mode = "mix_doubles"
       => \A c \in Conns : \A s \in NewSnapshots(c) :
             SelectorReported(s) /\ SettingsReported(s)]_vars

\* The numbers of entries the teams have in a stored layout.
EntriesPerTeam(stone_coordinate) ==
    IF stone_coordinate.kind = "positioned"
    THEN {Len(stone_coordinate[team]) : team \in Teams}
    ELSE {stone_coordinate.count}

\* Of a layout made by end setup, at most the first entry of a team is away
\* from the origin.
UnplacedAtOrigin(stone_coordinate) ==
    stone_coordinate.kind = "positioned"
        => \A team \in Teams : Placed(stone_coordinate[team]) \subseteq {1}

\* C40: every stored layout of the match - the one made at match start, by an
\* end setup, by a shot or by an end transition - has stone_count_per_team
\* entries for each team, 8 in standard mode and 6 in mixed doubles, and the
\* entries that are not in play are at the origin.
C40_LayoutHasStonesPerTeam ==
    \A i \in 1..Len(state) :
        /\ EntriesPerTeam(state[i].stone_coordinate) =
               {stone_count_per_team(match.game_mode)}
        /\ UnplacedAtOrigin(state[i].stone_coordinate)

====
